---- MODULE Spec2Model ----
(***************************************************************************)
(* A model of colly's scheduled patterns: the clock's cursor positions     *)
(* (src/clock.rs), the tick-driven EventStream and the Pattern that        *)
(* bundles five of them (src/types/pattern.rs), and the interpreter that   *)
(* lowers a parsed pattern to intermediate events (src/interpreter.rs).    *)
(*                                                                         *)
(* Eight specifications share the operators below:                         *)
(*   Spec          one EventStream, built with EventStream::new and driven *)
(*                 by next / add_event / set_loop / reset / fill_gaps;     *)
(*   SpecPattern   one Pattern, built with Pattern::new, set_loop and      *)
(*                 schedule_*, then played with next;                      *)
(*   SpecSchedule  one Pattern and its schedule_* methods, called at any   *)
(*                 position and for any duration, zero included;           *)
(*   SpecLower     one ast::Pattern, lowered beat by beat and then through *)
(*                 tie handling, one arranged group at a time;             *)
(*   SpecValues    Value::new_pitch and the CursorPosition constructors    *)
(*                 and operators, each applied once;                       *)
(*   SpecEvent     one group, chord or parenthesised event, lowered by an  *)
(*                 EventInterpreter at any register and beat position;     *)
(*   SpecReset     one non-looping Pattern, played, reset and played       *)
(*                 again;                                                  *)
(*   SpecDrain     one non-looping EventStream read by next() for ever     *)
(*                 (weakly fair) while add_event is called now and then.   *)
(* In the first three, event positions are normalised (tick < resolution), *)
(* as every position that increment and from_ticks produce is.             *)
(***************************************************************************)
EXTENDS Integers, Sequences, FiniteSets, TLC

VARIABLES
    stream,     \* Spec: the EventStream
    inserted,   \* Spec: history, the events in the order they were passed in
    calls,      \* Spec: history, one record per next() call
    flags,      \* Spec: history, what has been done to the stream besides next()
    pattern,    \* the Pattern
    plog,       \* history, one record per Pattern::next() call
    pflags,     \* history, the number of schedule_* calls made
    plast,      \* the schedule_* call just made and the pattern before it
    lower,      \* SpecLower: the lowering of one ast::Pattern, step by step
    calc        \* SpecValues: the arguments and result of the last function applied

vars == <<stream, inserted, calls, flags, pattern, plog, pflags, plast, lower, calc>>

svars == <<stream, inserted, calls, flags>>

pvars == <<pattern, plog, pflags, plast>>

lvars == <<lower, calc>>

----------------------------------------------------------------------------
(* Bounds of the model *)

\* SpecLower: the most beats of a source pattern
MaxBeats == 4

\* SpecValues: degree values are 0..MaxDegree, alterations
\* -MaxAlteration..MaxAlteration, resolutions 1..MaxResolution, tick counts
\* 0..MaxTicks
MaxDegree == 8

MaxAlteration == 2

MaxResolution == 3

MaxTicks == 8

\* SpecEvent: the most atoms of a group, and the most inner beats of a chord
\* or parenthesised event
MaxAtoms == 3

MaxInner == 2

\* next() calls per iteration of a pattern that is reset (SpecReset)
MaxResetCalls == 6

\* ticks per beat of every cursor in the model
R == 2

\* event positions of the EventStream specification are ticks 0..MaxTick
MaxTick == 2

\* events one EventStream holds at most
MaxEvents == 3

\* next() calls recorded per behaviour of Spec
MaxCalls == 6

\* set_loop, reset and late add_event calls (those after the first next())
\* per behaviour of Spec
MaxOps == 1

\* schedule_* calls per behaviour of SpecPattern and of SpecSchedule
MaxSchedule == 2

\* schedule_* positions of SpecPattern are ticks 0..MaxPTick
MaxPTick == 4

\* Pattern::next() calls recorded per behaviour of SpecPattern
MaxPCalls == 14

----------------------------------------------------------------------------
(* clock.rs: CursorPosition and Cursor *)

Pos(b, t) == [beat |-> b, tick |-> t]

Origin == Pos(0, 0)

as_ticks(p, res) == p.beat * res + p.tick

from_ticks(ticks, res) == Pos(ticks \div res, ticks % res)

\* u64::saturating_sub
saturating_sub(a, b) == IF a >= b THEN a - b ELSE 0

\* Ord for CursorPosition: by beat, then by tick
PosLess(a, b) == a.beat < b.beat \/ (a.beat = b.beat /\ a.tick < b.tick)

increment_skip_wrap(p, res) == Pos(p.beat, p.tick + 1)

increment(p, res) ==
    IF p.tick + 1 >= res THEN Pos(p.beat + 1, 0) ELSE Pos(p.beat, p.tick + 1)

Cursor_new(res) == [position |-> Origin, resolution |-> res]

Cursor_next_stay(c) == c

Cursor_next(c) == [c EXCEPT !.position = increment(c.position, c.resolution)]

\* position + other at the given resolution (the right operand need not be
\* normalised)
add_position(p, other, res) ==
    from_ticks(as_ticks(p, res) + (other.beat * res + other.tick), res)

\* position - other at the given resolution, saturating at (0, 0)
sub_position(p, other, res) ==
    from_ticks(saturating_sub(as_ticks(p, res), other.beat * res + other.tick), res)

\* f64::round of the fraction n/d >= 0: halves go away from zero
round(n, d) == (2 * n + d) \div (2 * d)

\* from_f64 of the position n/d >= 0: `as u64` truncates, fract() is what is
\* left
from_f64(n, d, res) == Pos(n \div d, round((n % d) * res, d))

\* impl Add for CursorPosition
add(p, other, res) ==
    from_ticks(as_ticks(p, res) + (other.beat * res + other.tick), res)

sub_fieldwise(p, other, res) ==
    Pos(saturating_sub(p.beat, other.beat), saturating_sub(p.tick, other.tick))

\* impl Sub for CursorPosition
sub(p, other, res) ==
    from_ticks(saturating_sub(as_ticks(p, res), other.beat * res + other.tick), res)

----------------------------------------------------------------------------
(* types/pattern.rs: Event and EventStream *)

On == "On"

Off == "Off"

Event(v, p, st) == [value |-> v, position |-> p, state |-> st]

\* u64::default(), the value type of the stream of Spec; its events carry 1, 2, ...
DefaultValue == 0

\* Event::<T>::default(), dflt being T::default()
Event_default(dflt) == Event(dflt, Origin, On)

None == [some |-> FALSE, group |-> <<>>]

Some(g) == [some |-> TRUE, group |-> g]

RECURSIVE InsertByPosition(_, _)
\* e goes behind every event that is not later than it: the sort is stable
InsertByPosition(sorted, e) ==
    IF sorted = <<>> THEN <<e>>
    ELSE IF PosLess(e.position, sorted[Len(sorted)].position)
         THEN Append(InsertByPosition(SubSeq(sorted, 1, Len(sorted) - 1), e),
                     sorted[Len(sorted)])
         ELSE Append(sorted, e)

RECURSIVE SortByPosition(_)
SortByPosition(es) ==
    IF es = <<>> THEN <<>>
    ELSE InsertByPosition(SortByPosition(SubSeq(es, 1, Len(es) - 1)), es[Len(es)])

sort_unstable(s) ==
    IF s.is_sorted THEN s
    ELSE LET RECURSIVE Rev(_)
             Rev(q) == IF q = <<>> THEN <<>> ELSE Append(Rev(Tail(q)), Head(q))
         IN [s EXCEPT !.events = SortByPosition(Rev(s.events)), !.is_sorted = TRUE]

sort(s) ==
    IF s.is_sorted THEN s
    ELSE [s EXCEPT !.events = SortByPosition(s.events), !.is_sorted = TRUE]

\* dflt is T::default()
EventStream_new(events, res, dflt) ==
    sort([events |-> events, increment |-> 0, cursor |-> Cursor_new(res),
          is_loop |-> FALSE, fill_gaps |-> FALSE,
          gap_value |-> <<Event_default(dflt)>>, is_sorted |-> FALSE])

add_event(s, e) == [s EXCEPT !.events = Append(s.events, e), !.is_sorted = FALSE]

reset(s) == [s EXCEPT !.increment = 0, !.cursor.position = Origin]

check_loop_never(s) == s

check_loop(s) ==
    IF s.is_loop /\ s.increment >= Len(s.events) THEN reset(s) ELSE s

set_loop(s, value) == check_loop([s EXCEPT !.is_loop = value])

RewritePositions(g, p) == [i \in 1..Len(g) |-> [g[i] EXCEPT !.position = p]]

handle_gaps_keep_position(s, events) ==
    LET s1 == IF events # <<>> THEN [s EXCEPT !.gap_value = events] ELSE s
    IN  [stream |-> s1,
         events |-> IF s1.fill_gaps /\ events = <<>> THEN s1.gap_value ELSE events]

\* the stream with gap_value updated, and the group to return
handle_gaps(s, events) ==
    LET s1 == IF events # <<>> THEN [s EXCEPT !.gap_value = events] ELSE s
    IN  [stream |-> s1,
         events |-> IF s1.fill_gaps /\ events = <<>>
                    THEN RewritePositions(s1.gap_value, s1.cursor.position)
                    ELSE events]

RECURSIVE Scan(_, _, _, _, _)
\* the for loop of next() over events[increment..]: i is the (1-based) index
\* of the event looked at, inc the running self.increment
Scan(events, i, cur, inc, result) ==
    IF i > Len(events) THEN [increment |-> inc, result |-> result]
    ELSE LET e    == events[i]
             hit  == e.position = cur
             inc2 == IF hit THEN inc + 1 ELSE inc
             res2 == IF hit THEN Append(result, e) ELSE result
         IN  IF PosLess(cur, e.position)
             THEN [increment |-> inc2, result |-> res2]
             ELSE Scan(events, i + 1, cur, inc2, res2)

\* the end of next(): the cursor moves on, check_loop, Some(result)
next_advance(hg) ==
    [stream |-> check_loop([hg.stream EXCEPT !.cursor = Cursor_next(@)]),
     result |-> Some(hg.events)]

\* next() past its early return: the for loop, then handle_gaps
next_collect(s, sc) ==
    next_advance(handle_gaps([s EXCEPT !.increment = sc.increment], sc.result))

next_sorted_no_end(s) ==
    IF s.events = <<>>
    THEN [stream |-> s, result |-> None]
    ELSE next_collect(s, Scan(s.events, s.increment + 1, s.cursor.position,
                              s.increment, <<>>))

\* next() after self.sort(): None from an empty or exhausted stream
next_sorted(s) ==
    IF s.events = <<>> \/ (s.increment >= Len(s.events) /\ ~s.is_loop)
    THEN [stream |-> s, result |-> None]
    ELSE next_collect(s, Scan(s.events, s.increment + 1, s.cursor.position,
                              s.increment, <<>>))

\* Iterator::next of EventStream: the stream after the call and what it returns
EventStream_next(s0) == next_sorted(sort(s0))

----------------------------------------------------------------------------
(* types/pattern.rs: the values and the Pattern *)

Degree(v, alt) == [value |-> v, alteration |-> alt]

Degree_default == Degree(0, 0)

Root_default == 0

Octave_with_octave(o) == [pitch |-> o * 12, octave |-> o]

Octave_default == Octave_with_octave(5)

DEFAULT_PITCH_SET == <<0, 1, 2, 3, 4, 5, 6, 7, 8, 9, 10, 11>>

Scale(name, pitch_set) == [name |-> name, pitch_set |-> pitch_set]

Scale_default == Scale("Chromatic", DEFAULT_PITCH_SET)

\* the f64 payload is kept as an integer
Modulation(name, v) == [name |-> name, value |-> v]

Modulation_default == Modulation("", 0)

Pitch(n) == [kind |-> "Pitch", pitch |-> n]

Value_from_modulation(m) == [kind |-> "Modulation", name |-> m.name, value |-> m.value]

as_pitch_at_scale(degree, scale) ==
    LET n == Len(scale.pitch_set)
        octave_offset == (degree.value \div n) * 12
    IN  (scale.pitch_set[(degree.value % n) + 1] + octave_offset) + degree.alteration

new_pitch_unclamped(degree, root, octave, scale) ==
    Pitch((octave.pitch + root) + as_pitch_at_scale(degree, scale))

new_pitch(degree, root, octave, scale) ==
    LET pitch == (octave.pitch + root) + as_pitch_at_scale(degree, scale)
    IN  Pitch(IF pitch > 0 THEN pitch ELSE 0)

Fields == {"degree", "scale", "root", "octave", "modulation"}

Pattern_new_keep_cursor(cursor) ==
    LET gapped(dflt) == [EventStream_new(<<>>, cursor.resolution, dflt)
                            EXCEPT !.is_loop = TRUE, !.fill_gaps = TRUE]
    IN  [degree         |-> EventStream_new(<<>>, cursor.resolution, Degree_default),
         scale          |-> gapped(Scale_default),
         root           |-> gapped(Root_default),
         octave         |-> gapped(Octave_default),
         modulation     |-> EventStream_new(<<>>, cursor.resolution, Modulation_default),
         cursor         |-> cursor,
         start_position |-> cursor.position,
         is_loop        |-> FALSE,
         is_finished    |-> FALSE]

Pattern_new(cursor) ==
    LET c0 == [cursor EXCEPT !.position = Origin]
        gapped(dflt) == [EventStream_new(<<>>, c0.resolution, dflt)
                            EXCEPT !.is_loop = TRUE, !.fill_gaps = TRUE]
    IN  [degree         |-> EventStream_new(<<>>, c0.resolution, Degree_default),
         scale          |-> gapped(Scale_default),
         root           |-> gapped(Root_default),
         octave         |-> gapped(Octave_default),
         modulation     |-> EventStream_new(<<>>, c0.resolution, Modulation_default),
         cursor         |-> c0,
         start_position |-> cursor.position,
         is_loop        |-> FALSE,
         is_finished    |-> FALSE]

Pattern_set_loop(p, is_loop) ==
    [p EXCEPT !.is_loop = is_loop, !.degree.is_loop = is_loop,
              !.modulation.is_loop = is_loop]

Pattern_reset(p) ==
    [p EXCEPT !.cursor.position = Origin,
              !.degree = reset(@), !.scale = reset(@), !.root = reset(@),
              !.octave = reset(@), !.modulation = reset(@)]

impl_schedule_method_off_late(p, field, value, position, duration) ==
    LET off_position == add_position(position, duration, p.cursor.resolution)
    IN  [p EXCEPT ![field] = add_event(add_event(@, Event(value, position, On)),
                                       Event(value, off_position, Off))]

\* the body the macro gives schedule_degree, schedule_scale, schedule_root,
\* schedule_octave and schedule_modulation, field being the stream's name
impl_schedule_method(p, field, value, position, duration) ==
    LET off_position ==
            sub_position(add_position(position, duration, p.cursor.resolution),
                         Pos(0, 1), p.cursor.resolution)
    IN  [p EXCEPT ![field] = add_event(add_event(@, Event(value, position, On)),
                                       Event(value, off_position, Off))]

\* what a stream gave, and whether it was reset and pulled a second time
Pulled(r, again) == [stream |-> r.stream, result |-> r.result, again |-> again]

pull_again_if_loop(p, pulled) ==
    IF p.cursor.position.tick = 0 /\ ~pulled.result.some /\ p.is_loop
    THEN Pulled(EventStream_next(reset(pulled.stream)), TRUE)
    ELSE Pulled(pulled, FALSE)

\* a stream that returned None is reset and pulled again at tick 0
pull_again(p, pulled) ==
    IF p.cursor.position.tick = 0 /\ ~pulled.result.some
    THEN Pulled(EventStream_next(reset(pulled.stream)), TRUE)
    ELSE Pulled(pulled, FALSE)

\* Some((degree, modulation)) of next_degree_and_modulation; dagain and
\* magain tell which stream was reset and pulled again
pulled_some(p, d, m) ==
    [pattern |-> [p EXCEPT !.degree = d.stream, !.modulation = m.stream],
     some |-> TRUE, degree |-> d.result.group, modulation |-> m.result.group,
     dagain |-> d.again, magain |-> m.again]

pulled_none(p, d, m) ==
    [pattern |-> [p EXCEPT !.degree = d.stream, !.modulation = m.stream,
                           !.is_finished = TRUE],
     some |-> FALSE, degree |-> <<>>, modulation |-> <<>>,
     dagain |-> FALSE, magain |-> FALSE]

pulled_none_unfinished(p, d, m) ==
    [pattern |-> [p EXCEPT !.degree = d.stream, !.modulation = m.stream],
     some |-> FALSE, degree |-> <<>>, modulation |-> <<>>,
     dagain |-> FALSE, magain |-> FALSE]

after_pull_no_rest(p, d1, m1) ==
    IF ~d1.result.some /\ ~m1.result.some
    THEN pulled_none(p, d1, m1)
    ELSE pulled_some(p, pull_again(p, d1), pull_again(p, m1))

after_pull_unfinished(p, d1, m1) ==
    IF ~d1.result.some /\ ~m1.result.some
    THEN IF ~p.is_finished /\ p.cursor.position.tick # 0
         THEN pulled_some(p, Pulled(d1, FALSE), Pulled(m1, FALSE))
         ELSE pulled_none_unfinished(p, d1, m1)
    ELSE pulled_some(p, pull_again(p, d1), pull_again(p, m1))

after_pull_no_restart(p, d1, m1) ==
    IF ~d1.result.some /\ ~m1.result.some
    THEN IF ~p.is_finished /\ p.cursor.position.tick # 0
         THEN pulled_some(p, Pulled(d1, FALSE), Pulled(m1, FALSE))
         ELSE pulled_none(p, d1, m1)
    ELSE pulled_some(p, Pulled(d1, FALSE), Pulled(m1, FALSE))

\* next_degree_and_modulation once both streams were pulled
after_pull(p, d1, m1) ==
    IF ~d1.result.some /\ ~m1.result.some
    THEN IF ~p.is_finished /\ p.cursor.position.tick # 0
         THEN pulled_some(p, Pulled(d1, FALSE), Pulled(m1, FALSE))
         ELSE pulled_none(p, d1, m1)
    ELSE pulled_some(p, pull_again(p, d1), pull_again(p, m1))

\* the pattern after the call; some = FALSE for None, else the two groups
next_degree_and_modulation(p) ==
    after_pull(p, EventStream_next(p.degree), EventStream_next(p.modulation))

\* value is the Option returned by a stream, dflt its T::default()
values_or_default(value, dflt) ==
    IF ~value.some \/ value.group = <<>> THEN <<Event_default(dflt)>> ELSE value.group

\* xs[n % xs.len()], n counted from 1 here
AtModulo(xs, n) == xs[((n - 1) % Len(xs)) + 1]

\* next_pitches once root, octave and scale were pulled
pitches(p, degree, r, o, sc) ==
    [pattern |-> [p EXCEPT !.root = r.stream, !.octave = o.stream,
                           !.scale = sc.stream],
     events  |-> [n \in 1..Len(degree) |->
                    Event(new_pitch(
                              degree[n].value,
                              AtModulo(values_or_default(r.result, Root_default), n).value,
                              AtModulo(values_or_default(o.result, Octave_default), n).value,
                              AtModulo(values_or_default(sc.result, Scale_default), n).value),
                          p.cursor.position, degree[n].state)]]

\* the pattern after root, octave and scale were pulled, and the pitch events
next_pitches(p, degree) ==
    pitches(p, degree, EventStream_next(p.root), EventStream_next(p.octave),
            EventStream_next(p.scale))

\* the modulation events, then the pitch events
chain(p, modulation, np) ==
    [pattern |-> np.pattern,
     events  |-> [n \in 1..Len(modulation) |->
                    Event(Value_from_modulation(modulation[n].value),
                          p.cursor.position, modulation[n].state)]
                 \o np.events]

init_next_values(p, degree, modulation) ==
    chain(p, modulation, next_pitches(p, degree))

\* Pattern::next after the map over next_degree_and_modulation: cursor.next()
next_result(dm, nv) ==
    [pattern    |-> [nv.pattern EXCEPT !.cursor = Cursor_next(@)],
     result     |-> IF dm.some THEN Some(nv.events) ELSE None,
     degree     |-> dm.degree,
     modulation |-> dm.modulation,
     dagain     |-> dm.dagain,
     magain     |-> dm.magain]

next_mapped(dm) ==
    next_result(dm, IF dm.some
                    THEN init_next_values(dm.pattern, dm.degree, dm.modulation)
                    ELSE [pattern |-> dm.pattern, events |-> <<>>])

\* Iterator::next of Pattern; degree and modulation are the groups pulled,
\* dagain and magain whether the stream was reset and pulled again
Pattern_next(p) == next_mapped(next_degree_and_modulation(p))

----------------------------------------------------------------------------
(* Spec: one EventStream *)

Positions == {from_ticks(n, R) : n \in 0..MaxTick}

\* the lists of at most n positions
PosLists(n) == UNION {[1..k -> Positions] : k \in 0..n}

\* the k-th event passed in carries the value k
EventsAt(ps) == [i \in 1..Len(ps) |-> Event(i, ps[i], On)]

NoFlags == [everLoop |-> FALSE, late |-> 0, wasReset |-> FALSE, ops |-> 0]

\* what the variables of the other specification stay at
Idle == [idle |-> TRUE]

Init ==
    /\ \E ps \in PosLists(MaxEvents) :
          /\ stream = EventStream_new(EventsAt(ps), R, DefaultValue)
          /\ inserted = EventsAt(ps)
    /\ calls = <<>>
    /\ flags = NoFlags
    /\ pattern = Idle
    /\ plog = <<>>
    /\ pflags = Idle
    /\ plast = Idle
    /\ lower = Idle
    /\ calc = Idle

\* r is what EventStream_next(stream) gives
StreamNextGives(r) ==
    /\ stream' = r.stream
    /\ calls' = Append(calls, [pre   |-> stream.cursor.position,
                               loop  |-> stream.is_loop,
                               fill  |-> stream.fill_gaps,
                               len   |-> Len(stream.events),
                               some  |-> r.result.some,
                               group |-> r.result.group,
                               post  |-> r.stream.cursor.position,
                               index |-> r.stream.increment])

StreamNext ==
    /\ Len(calls) < MaxCalls
    /\ StreamNextGives(EventStream_next(stream))
    /\ UNCHANGED <<inserted, flags, pvars, lvars>>

StreamAddEvent ==
    /\ Len(stream.events) < MaxEvents
    /\ calls # <<>> => flags.ops < MaxOps
    /\ \E p \in Positions :
          LET e == Event(Len(inserted) + 1, p, On) IN
          /\ stream' = add_event(stream, e)
          /\ inserted' = Append(inserted, e)
    /\ flags' = IF calls = <<>> THEN flags
                ELSE [flags EXCEPT !.late = @ + 1, !.ops = @ + 1]
    /\ UNCHANGED <<calls, pvars, lvars>>

StreamSetLoop ==
    /\ flags.ops < MaxOps
    /\ \E b \in BOOLEAN :
          /\ stream' = set_loop(stream, b)
          /\ flags' = [flags EXCEPT !.everLoop = @ \/ b, !.ops = @ + 1]
    /\ UNCHANGED <<inserted, calls, pvars, lvars>>

StreamReset ==
    /\ flags.ops < MaxOps
    /\ calls # <<>>
    /\ stream' = reset(stream)
    /\ flags' = [flags EXCEPT !.wasReset = TRUE, !.ops = @ + 1]
    /\ UNCHANGED <<inserted, calls, pvars, lvars>>

\* `stream.fill_gaps = true`, done as in Pattern::new and the tests: before
\* the stream is read
StreamSetFillGaps ==
    /\ calls = <<>>
    /\ ~stream.fill_gaps
    /\ stream' = [stream EXCEPT !.fill_gaps = TRUE]
    /\ UNCHANGED <<inserted, calls, flags, pvars, lvars>>

Next ==
    \/ StreamNext
    \/ StreamAddEvent
    \/ StreamSetLoop
    \/ StreamReset
    \/ StreamSetFillGaps

Spec == Init /\ [][Next]_vars

----------------------------------------------------------------------------
(* SpecPattern: one Pattern *)

PPositions == {from_ticks(n, R) : n \in 0..MaxPTick}

\* one tick, one beat
PDurations == {Pos(0, 1), Pos(1, 0)}

\* scale, root and octave are scheduled for the first beat
AuxPositions == {Origin}

AuxDurations == {Pos(1, 0)}

\* where the cursor handed to Pattern::new stands
StartPositions == {Origin, Pos(2, 1)}

MajorScale == Scale("Major", <<0, 2, 4, 5, 7, 9, 11>>)

\* the value the n-th schedule_<field> call passes, by stream
ValueFor(field, n) ==
    CASE field = "degree"     -> Degree(n, 0)
      [] field = "scale"      -> MajorScale
      [] field = "root"       -> n
      [] field = "octave"     -> Octave_with_octave(n)
      [] field = "modulation" -> Modulation("v", n)

NoPFlags == [scheduled |-> 0]

NotCalled == [called |-> FALSE]

InitPattern ==
    /\ \E start \in StartPositions :
          pattern = Pattern_new([position |-> start, resolution |-> R])
    /\ plog = <<>>
    /\ pflags = NoPFlags
    /\ plast = NotCalled
    /\ stream = Idle
    /\ inserted = <<>>
    /\ calls = <<>>
    /\ flags = Idle
    /\ lower = Idle
    /\ calc = Idle

\* schedule_<field>(value, position, duration)
Schedule(field, positions, durations, most) ==
    /\ pflags.scheduled < most
    /\ \E position \in positions, duration \in durations :
          LET value == ValueFor(field, Len(pattern[field].events) \div 2 + 1) IN
          /\ pattern' = impl_schedule_method(pattern, field, value, position, duration)
          /\ plast' = [called |-> TRUE, field |-> field, value |-> value,
                       position |-> position, duration |-> duration,
                       before |-> pattern]
    /\ pflags' = [pflags EXCEPT !.scheduled = @ + 1]
    /\ UNCHANGED <<plog, svars, lvars>>

\* the pattern is built before it is played
schedule_degree ==
    plog = <<>> /\ Schedule("degree", PPositions, PDurations, MaxSchedule)

schedule_scale ==
    plog = <<>> /\ Schedule("scale", AuxPositions, AuxDurations, MaxSchedule)

schedule_root ==
    plog = <<>> /\ Schedule("root", AuxPositions, AuxDurations, MaxSchedule)

schedule_octave ==
    plog = <<>> /\ Schedule("octave", AuxPositions, AuxDurations, MaxSchedule)

schedule_modulation ==
    plog = <<>> /\ Schedule("modulation", PPositions, PDurations, MaxSchedule)

Left(s) == Len(s.events) - s.increment

\* r is what Pattern_next(pattern) gives
PatternNextGives(r) ==
    /\ pattern' = r.pattern
    /\ plog' = Append(plog, [pre        |-> pattern.cursor.position,
                             loop       |-> pattern.is_loop,
                             dleft      |-> Left(pattern.degree),
                             mleft      |-> Left(pattern.modulation),
                             some       |-> r.result.some,
                             group      |-> r.result.group,
                             degree     |-> r.degree,
                             modulation |-> r.modulation,
                             dagain     |-> r.dagain,
                             magain     |-> r.magain])

PatternNext ==
    /\ Len(plog) < MaxPCalls
    /\ PatternNextGives(Pattern_next(pattern))
    /\ plast' = NotCalled
    /\ UNCHANGED <<pflags, svars, lvars>>

\* set_loop(b), before anything is scheduled
PatternSetLoop ==
    /\ plog = <<>>
    /\ pflags.scheduled = 0
    /\ \E b \in BOOLEAN :
          pattern' = Pattern_set_loop(pattern, b)
    /\ plast' = NotCalled
    /\ UNCHANGED <<plog, pflags, svars, lvars>>

NextPattern ==
    \/ schedule_degree
    \/ schedule_scale
    \/ schedule_root
    \/ schedule_octave
    \/ schedule_modulation
    \/ PatternNext
    \/ PatternSetLoop

SpecPattern == InitPattern /\ [][NextPattern]_vars

----------------------------------------------------------------------------
(* SpecSchedule: the schedule_* methods on their own *)

\* none, one tick, one beat
WDurations == {Origin, Pos(0, 1), Pos(1, 0)}

\* the first next(), before anything is scheduled: the cursor leaves the
\* origin
NextUnscheduled ==
    /\ pflags.scheduled = 0
    /\ plog = <<>>
    /\ PatternNextGives(Pattern_next(pattern))
    /\ plast' = NotCalled
    /\ UNCHANGED <<pflags, svars, lvars>>

\* any of the five schedule_* methods, at any position, for any duration
ScheduleAny ==
    \E field \in Fields : Schedule(field, Positions, WDurations, MaxSchedule)

NextSchedule ==
    \/ NextUnscheduled
    \/ ScheduleAny
    \/ PatternSetLoop

SpecSchedule == InitPattern /\ [][NextSchedule]_vars

----------------------------------------------------------------------------
(* Reading the history of Spec *)

\* the events the stream held when call i was made, in insertion order
EventsHeld(i) == SubSeq(inserted, 1, calls[i].len)

\* those of them scheduled at the cursor position of call i
Here(i) == SelectSeq(EventsHeld(i), LAMBDA e : e.position = calls[i].pre)

\* as_ticks of the last (latest) event position
LastTicks(es) ==
    CHOOSE m \in {as_ticks(es[k].position, R) : k \in 1..Len(es)} :
        \A k \in 1..Len(es) : as_ticks(es[k].position, R) <= m

OneTickLater(p, q) == as_ticks(q, R) = as_ticks(p, R) + 1

\* the last group returned before call i, or <<>> when there was none
GroupBefore(i) ==
    LET js == {j \in 1..(i - 1) : calls[j].some /\ calls[j].group # <<>>}
    IN  IF js = {} THEN <<>>
        ELSE calls[CHOOSE j \in js : \A k \in js : k <= j].group

----------------------------------------------------------------------------
(* Claims about the EventStream, checked under Spec *)

\* C1 as stated: every next() that returns Some(group) returns only events
\* positioned at the cursor position the call started from, and moves the
\* cursor on by exactly one tick.
C1_AsStated ==
    \A i \in 1..Len(calls) :
        calls[i].some =>
            /\ \A k \in 1..Len(calls[i].group) :
                  calls[i].group[k].position = calls[i].pre
            /\ OneTickLater(calls[i].pre, calls[i].post)

\* C1 (amended): every next() that returns Some(group) returns only events
\* (gap-filled copies included) positioned at the cursor position the call
\* started from; the call moves the cursor on by exactly one tick, unless the
\* stream is looping and the call has read its last event, and then index and
\* cursor are back at 0 and (0,0).
C1_PositionsAndAdvance ==
    \A i \in 1..Len(calls) :
        calls[i].some =>
            /\ \A k \in 1..Len(calls[i].group) :
                  calls[i].group[k].position = calls[i].pre
            /\ IF calls[i].loop /\ ~OneTickLater(calls[i].pre, calls[i].post)
               THEN calls[i].post = Origin /\ calls[i].index = 0
               ELSE /\ OneTickLater(calls[i].pre, calls[i].post)
                    /\ calls[i].loop => calls[i].index < calls[i].len

\* a gap-filled copy was returned away from the origin, and a looping stream
\* has wrapped
C1_Witness ==
    /\ \E i \in 1..Len(calls) :
          calls[i].some /\ calls[i].fill /\ Here(i) = <<>> /\ calls[i].pre # Origin
    /\ \E i \in 1..Len(calls) :
          calls[i].some /\ calls[i].loop /\ calls[i].pre # Origin
              /\ calls[i].post = Origin

\* C2: with every event passed in before the first read, each next() returns
\* exactly the events scheduled at the cursor position, in the order they were
\* inserted (or a gap-filled group where none is scheduled); without looping
\* or reset the positions of the returned events never decrease, and by the
\* time None is returned every event has been returned.
C2_OrderAndGroups ==
    flags.late = 0 =>
        /\ \A i \in 1..Len(calls) :
              calls[i].some =>
                  /\ Here(i) # <<>> => calls[i].group = Here(i)
                  /\ (Here(i) = <<>> /\ ~calls[i].fill) => calls[i].group = <<>>
        /\ (~flags.everLoop /\ ~flags.wasReset) =>
              /\ \A i \in 1..Len(calls) : \A j \in (i + 1)..Len(calls) :
                    \A a \in 1..Len(calls[i].group) : \A b \in 1..Len(calls[j].group) :
                        ~PosLess(calls[j].group[b].position, calls[i].group[a].position)
              /\ (\E i \in 1..Len(calls) : ~calls[i].some) =>
                    \A k \in 1..Len(inserted) :
                        \E i \in 1..Len(calls) : \E a \in 1..Len(calls[i].group) :
                            calls[i].group[a] = inserted[k]

\* events inserted out of order, two of them at one position, were read to
\* the end
C2_Witness ==
    /\ flags.late = 0 /\ ~flags.everLoop /\ ~flags.wasReset
    /\ Len(inserted) = 3
    /\ PosLess(inserted[2].position, inserted[1].position)
    /\ inserted[3].position = inserted[1].position
    /\ \E i \in 1..Len(calls) : ~calls[i].some
    /\ \E i \in 1..Len(calls) : calls[i].group = <<inserted[1], inserted[3]>>

\* C3: a stream that never loops, is not reset and gets no event after its
\* first read returns Some from exactly its first as_ticks(last position) + 1
\* calls (an empty group where no event is scheduled and gaps are not filled)
\* and None from every later call.
C3_SomeCount ==
    (~flags.everLoop /\ ~flags.wasReset /\ flags.late = 0 /\ inserted # <<>>) =>
        \A i \in 1..Len(calls) :
            /\ calls[i].some <=> i <= LastTicks(inserted) + 1
            /\ (calls[i].some /\ ~calls[i].fill /\ Here(i) = <<>>) =>
                  calls[i].group = <<>>

\* a stream whose last event is not at the origin returned an empty group and
\* then None twice
C3_Witness ==
    /\ ~flags.everLoop /\ ~flags.wasReset /\ flags.late = 0 /\ inserted # <<>>
    /\ LastTicks(inserted) >= 2
    /\ \E i \in 1..Len(calls) : calls[i].some /\ calls[i].group = <<>>
    /\ Len(calls) >= LastTicks(inserted) + 3
    /\ ~calls[Len(calls)].some /\ ~calls[Len(calls) - 1].some

\* C4: a next() on a looping stream that holds an event never returns None.
\* With no event added after the first read: the call at the last event's
\* position puts index and cursor back to 0 and (0,0) and the call after it
\* starts from (0,0); without gap-filling or reset the calls repeat with
\* period as_ticks(last position) + 1; and the first looping call after the
\* stream was exhausted without looping starts from (0,0) and returns Some.
C4_Looping ==
    /\ \A i \in 1..Len(calls) : (calls[i].loop /\ calls[i].len > 0) => calls[i].some
    /\ flags.late = 0 =>
          /\ \A i \in 1..Len(calls) :
                (calls[i].loop /\ calls[i].len > 0
                    /\ as_ticks(calls[i].pre, R) = LastTicks(inserted)) =>
                    /\ calls[i].post = Origin /\ calls[i].index = 0
                    /\ (i < Len(calls) /\ ~flags.wasReset) =>
                          /\ calls[i + 1].pre = Origin
                          /\ (calls[i + 1].loop /\ ~calls[i + 1].fill) =>
                                calls[i + 1].group = Here(i + 1)
          /\ (~flags.wasReset /\ inserted # <<>>) =>
                \A i \in 1..Len(calls) :
                    LET j == i + LastTicks(inserted) + 1 IN
                    (j <= Len(calls) /\ \A k \in i..j : calls[k].loop /\ ~calls[k].fill) =>
                        calls[j].pre = calls[i].pre /\ calls[j].group = calls[i].group
          /\ \A i \in 1..(Len(calls) - 1) :
                (~calls[i].loop /\ calls[i].len > 0 /\ calls[i].index >= calls[i].len
                    /\ calls[i + 1].loop) =>
                    calls[i + 1].some /\ calls[i + 1].pre = Origin

\* a looping stream went round more than once, and an exhausted stream was
\* set looping and read again
C4_Witness ==
    /\ flags.late = 0 /\ ~flags.wasReset /\ inserted # <<>>
    /\ LastTicks(inserted) >= 1
    /\ \E i \in 1..(Len(calls) - 1) :
          LET j == i + 1 + LastTicks(inserted) + 1 IN
          /\ ~calls[i].some /\ calls[i].len > 0
          /\ j <= Len(calls)
          /\ \A k \in (i + 1)..j : calls[k].loop /\ calls[k].some /\ ~calls[k].fill
          /\ calls[i + 1].group # <<>> /\ calls[j].group = calls[i + 1].group
          /\ calls[j - 1].post = Origin

\* what gap-filling returns at call i
GapFill(i) ==
    IF GroupBefore(i) = <<>> THEN <<Event(DefaultValue, calls[i].pre, On)>>
    ELSE RewritePositions(GroupBefore(i), calls[i].pre)

\* C5 as stated: with fill_gaps set, every next() at a cursor position
\* holding no event returns a copy of the most recently returned group with
\* the positions rewritten to the cursor position, or one default-valued
\* event when no group was returned before.
C5_AsStated ==
    \A i \in 1..Len(calls) :
        (calls[i].fill /\ Here(i) = <<>>) =>
            calls[i].some /\ calls[i].group = GapFill(i)

\* C5 (amended): with fill_gaps set, every next() that returns Some at a
\* cursor position holding no event returns a copy of the most recently
\* returned group with the positions rewritten to the cursor position, or one
\* default-valued event when no group was returned before. (An empty stream,
\* and an exhausted stream that does not loop, return None.)
C5_GapFill ==
    \A i \in 1..Len(calls) :
        (calls[i].fill /\ Here(i) = <<>> /\ calls[i].some) =>
            calls[i].group = GapFill(i)

\* the default event was returned at a gap before the first event, and a copy
\* of an earlier group at a gap after it
C5_Witness ==
    /\ \E i \in 1..Len(calls) :
          calls[i].fill /\ calls[i].some /\ Here(i) = <<>>
              /\ calls[i].group = <<Event(DefaultValue, calls[i].pre, On)>>
    /\ \E i \in 1..Len(calls) :
          calls[i].fill /\ calls[i].some /\ Here(i) = <<>>
              /\ Len(calls[i].group) = 2 /\ calls[i].group[1].value # DefaultValue

----------------------------------------------------------------------------
(* Reading the history of SpecPattern and SpecSchedule *)

\* the beats a stream's events span: up to the beat of its latest event
Beats(es) == IF es = <<>> THEN 0 ELSE LastTicks(es) \div R + 1

\* least common multiple, an empty stream counting as no constraint
Lcm(a, b) ==
    IF a = 0 THEN b
    ELSE IF b = 0 THEN a
    ELSE CHOOSE m \in 1..(a * b) :
            /\ m % a = 0 /\ m % b = 0
            /\ \A n \in 1..(m - 1) : ~(n % a = 0 /\ n % b = 0)

DegreeBeats == Beats(pattern.degree.events)

ModulationBeats == Beats(pattern.modulation.events)

\* the ticks to the first beat boundary where both streams are exhausted
EndTicks == R * Lcm(DegreeBeats, ModulationBeats)

\* the events a stream holds at the position it has reached at call i, the
\* stream being restarted every beats beats
Replayed(es, beats, i) ==
    IF beats = 0 THEN <<>>
    ELSE SelectSeq(SortByPosition(es),
                   LAMBDA e : e.position = from_ticks((i - 1) % (beats * R), R))

\* the record of the call made last; the claims below are stated of it, and
\* so of every call, each being the last one in the state it leads to
Last == plog[Len(plog)]

\* call i found both streams exhausted
BothExhausted(i) == plog[i].dleft = 0 /\ plog[i].mleft = 0

\* a call before call i returned None
NoneBefore(i) == \E j \in 1..(i - 1) : ~plog[j].some

\* position + duration - 1 tick of the last schedule_* call
OffPosition ==
    from_ticks(saturating_sub(as_ticks(plast.position, R)
                              + as_ticks(plast.duration, R), 1), R)

----------------------------------------------------------------------------
(* Claims about the Pattern *)

\* C6: a call schedule_<field>(value, position, duration) appends exactly two
\* events to the named stream, On at position and then Off at
\* position + duration - 1 tick, and changes nothing else of the pattern: not
\* the other four streams, not the cursor, not the loop flag.  Checked under
\* SpecSchedule.
C6_ScheduleAddsOnOff ==
    plast.called =>
        /\ pattern[plast.field].events =
              plast.before[plast.field].events
              \o <<Event(plast.value, plast.position, On),
                   Event(plast.value, OffPosition, Off)>>
        /\ pattern = [plast.before EXCEPT ![plast.field] = pattern[plast.field]]

\* a scheduling call of a beat's duration, away from the origin, on a looping
\* pattern that already holds events and whose cursor has left the origin
C6_Witness ==
    /\ plast.called
    /\ plast.position # Origin /\ plast.duration = Pos(1, 0)
    /\ pattern.is_loop
    /\ pattern.cursor.position # Origin
    /\ \E f \in Fields \ {plast.field} : pattern[f].events # <<>>
    /\ Len(pattern[plast.field].events) = 2

\* C7: every event returned by the k-th call of Pattern.next(), k counted
\* from 0, carries the position from_ticks(k, R), whatever the position of
\* the cursor handed to Pattern::new, also when the event is replayed from a
\* restarted stream.  Checked under SpecPattern.
C7_PositionsFromOrigin ==
    plog # <<>> =>
        \A n \in 1..Len(Last.group) :
            Last.group[n].position = from_ticks(Len(plog) - 1, R)

\* a pattern built on a cursor that stood at (2, 1) replays a degree of its
\* first beat in a later beat
C7_Witness ==
    /\ pattern.start_position = Pos(2, 1)
    /\ ~pattern.is_loop
    /\ \E i \in 1..Len(plog) :
          /\ i > DegreeBeats * R
          /\ plog[i].degree # <<>>
          /\ plog[i].group # <<>>

\* C8: in a non-looping Pattern that has not returned None yet, a call that
\* finds degree and modulation both exhausted at tick t # 0 returns an empty
\* group, and so does every call up to the end of the beat; the call at tick 0
\* of the next beat returns None.  The Some results before the first None are
\* a multiple of R.  Checked under SpecPattern.
C8_RestOfBeat ==
    \A i \in 1..Len(plog) :
        (~plog[i].loop /\ ~NoneBefore(i)) =>
            /\ (BothExhausted(i) /\ plog[i].pre.tick # 0) =>
                  /\ Len(plog) < i + (R - plog[i].pre.tick) =>
                        Last.some /\ Last.group = <<>>
                  /\ Len(plog) = i + (R - plog[i].pre.tick) =>
                        ~Last.some /\ Last.pre.tick = 0
            /\ ~plog[i].some => (i - 1) % R = 0

\* both streams ran out in the middle of a beat, the beat was completed with
\* an empty group and the next call returned None
C8_Witness ==
    \E i \in 2..Len(plog) :
        /\ ~plog[i].loop /\ ~NoneBefore(i)
        /\ BothExhausted(i - 1) /\ plog[i - 1].pre.tick # 0
        /\ plog[i - 1].some /\ plog[i - 1].group = <<>>
        /\ ~plog[i].some
        /\ pattern.degree.events # <<>>

\* C9: a non-looping Pattern, built and then only played, returns None by the
\* call after the first beat boundary where both streams are exhausted (also
\* when the streams have different lengths and are restarted against each
\* other), and after a None every later call returns None.  Checked under
\* SpecPattern.
C9_EndsAndStaysEnded ==
    (~pattern.is_loop /\ plog # <<>>) =>
        /\ Len(plog) > EndTicks => ~Last.some
        /\ NoneBefore(Len(plog)) => ~Last.some

\* streams of different lengths were restarted against each other, the
\* pattern returned None, and the next call, in the middle of a beat,
\* returned None again
C9_Witness ==
    /\ ~pattern.is_loop
    /\ DegreeBeats # ModulationBeats /\ DegreeBeats > 0 /\ ModulationBeats > 0
    /\ Len(plog) >= EndTicks + 2
    /\ plog[EndTicks].some
    /\ ~plog[EndTicks + 1].some
    /\ ~plog[EndTicks + 2].some /\ plog[EndTicks + 2].pre.tick # 0

\* C10: in a non-looping Pattern the degree and the modulation stream are
\* each replayed from their origin every time they are exhausted at a beat
\* boundary while the other still yields, so each call pulls from a stream
\* the events of the position it has reached in its own cycle, and the
\* pattern returns Some exactly until the first beat boundary where both
\* streams are exhausted.  Checked under SpecPattern.
C10_ShorterRestarted ==
    (~pattern.is_loop /\ plog # <<>>) =>
        /\ Last.some <=> Len(plog) <= EndTicks
        /\ Len(plog) <= EndTicks =>
              /\ Last.degree =
                    Replayed(pattern.degree.events, DegreeBeats, Len(plog))
              /\ Last.modulation =
                    Replayed(pattern.modulation.events, ModulationBeats, Len(plog))

\* one beat of degrees against two beats of modulations: the degrees were
\* played twice and the pattern ended after two beats
C10_Witness ==
    /\ ~pattern.is_loop
    /\ DegreeBeats = 1 /\ ModulationBeats = 2
    /\ Len(plog) = 2 * R + 1
    /\ plog[1].degree # <<>>
    /\ plog[R + 1].degree = plog[1].degree
    /\ plog[2 * R].some
    /\ ~plog[2 * R + 1].some

\* C11 as stated: a stream found exhausted is reset and pulled again exactly
\* when the cursor is at tick 0 of a beat and the pattern is looping.
C11_AsStated ==
    plog # <<>> =>
        /\ Last.dleft = 0 => (Last.dagain <=> (Last.pre.tick = 0 /\ Last.loop))
        /\ Last.mleft = 0 => (Last.magain <=> (Last.pre.tick = 0 /\ Last.loop))

\* C11 (amended): a stream found exhausted is reset and pulled again exactly
\* when the cursor is at tick 0 of a beat and the other stream is not
\* exhausted too, whether the pattern is looping or not; a stream that is not
\* exhausted is never reset.  Checked under SpecPattern.
C11_RestartAtBeat ==
    plog # <<>> =>
        /\ Last.dagain <=> (Last.dleft = 0 /\ Last.pre.tick = 0 /\ Last.mleft # 0)
        /\ Last.magain <=> (Last.mleft = 0 /\ Last.pre.tick = 0 /\ Last.dleft # 0)

\* in a pattern that does not loop, the degree stream ran out in the middle
\* of a beat and was left alone, then was reset at the next beat and gave its
\* first group again
C11_Witness ==
    /\ Len(plog) > R
    /\ ~Last.loop /\ Last.dagain /\ ~Last.magain
    /\ Last.degree # <<>> /\ Last.degree = plog[1].degree
    /\ plog[Len(plog) - 1].dleft = 0 /\ ~plog[Len(plog) - 1].dagain
    /\ plog[Len(plog) - 1].some

----------------------------------------------------------------------------
(* src/interpreter.rs: lowering an ast::Pattern to intermediate events.     *)
(* Durations and beat positions, f64 in the source, are exact fractions     *)
(* here: [n |-> numerator, d |-> denominator] in lowest terms.              *)

RECURSIVE Gcd(_, _)
Gcd(a, b) == IF b = 0 THEN a ELSE Gcd(b, a % b)

Frac(n, d) == [n |-> n \div Gcd(n, d), d |-> d \div Gcd(n, d)]

Zero == [n |-> 0, d |-> 1]

One == [n |-> 1, d |-> 1]

Whole(k) == [n |-> k, d |-> 1]

FAdd(x, y) == Frac(x.n * y.d + y.n * x.d, x.d * y.d)

FMul(x, y) == Frac(x.n * y.n, x.d * y.d)

\* y is not zero
FDiv(x, y) == Frac(x.n * y.d, x.d * y.n)

\* ast::PatternAtomValue
Atom_Note(pitch, alteration) == [kind |-> "Note", pitch |-> pitch, alteration |-> alteration]

Atom_Tie == [kind |-> "Tie"]

Atom_Pause == [kind |-> "Pause"]

Atom_Octave(direction) == [kind |-> "Octave", direction |-> direction]

PatternAtom(value, methods) == [value |-> value, methods |-> methods]

\* ast::Event
Group(atoms) == [kind |-> "Group", atoms |-> atoms]

Chord(inner, methods) == [kind |-> "Chord", inner |-> inner, methods |-> methods]

ParenthesisedEvent(inner, methods) ==
    [kind |-> "ParenthesisedEvent", inner |-> inner, methods |-> methods]

\* Audible
Audible_Degree(degree) == [kind |-> "Degree", degree |-> degree]

Audible_Pause == [kind |-> "Pause"]

Audible_Tie == [kind |-> "Tie"]

IntermediateEvent(value, octave, duration, beat_position, beat) ==
    [value |-> value, octave |-> octave, duration |-> duration,
     beat_position |-> beat_position, beat |-> beat]

ArrangedIntermediates(values, duration, beat, beat_position) ==
    [values |-> values, duration |-> duration, beat |-> beat,
     beat_position |-> beat_position]

\* From<IntermediateEvent> for ArrangedIntermediates
Arranged_from(event) ==
    ArrangedIntermediates(<<event>>, event.duration, event.beat, event.beat_position)

\* Option<types::Octave>
NoOctave == [some |-> FALSE]

SomeOctave(o) == [some |-> TRUE, octave |-> o]

\* saturating_add stays below u64::MAX: the register starts at 5 and moves by
\* one per octave atom
Octave_up(o) == Octave_with_octave(o.octave + 1)

Octave_down(o) == Octave_with_octave(saturating_sub(o.octave, 1))

RECURSIVE interpret_methods(_, _)
interpret_methods(source, methods) ==
    IF methods = <<>> THEN source
    ELSE interpret_methods(
            CASE Head(methods) = "Multiply" -> FMul(source, Whole(2))
              [] Head(methods) = "Divide"   -> FDiv(source, Whole(2))
              [] Head(methods) = "Dot"      -> FMul(source, Frac(3, 2)),
            Tail(methods))

RECURSIVE interpret_alteration(_)
interpret_alteration(alterations) ==
    IF alterations = <<>> THEN 0
    ELSE interpret_alteration(SubSeq(alterations, 1, Len(alterations) - 1))
            + (IF alterations[Len(alterations)] = "Up" THEN 1 ELSE -1)

interpret_note(note) == Degree(note.pitch, interpret_alteration(note.alteration))

\* An AtomInterpreter and the output vector of the interpret_group that owns
\* it: octave and position are the shared cells, octave_change is its own.
AtomInterpreter_new(octave, beat, position) ==
    [octave |-> octave, octave_change |-> NoOctave, position |-> position,
     beat |-> beat, output |-> <<>>]

interpret_octave_change_stale(a, direction) ==
    LET octave_change == IF a.octave_change.some THEN a.octave_change.octave
                         ELSE a.octave
    IN  IF direction = "Up"
        THEN [a EXCEPT !.octave_change = SomeOctave(octave_change),
                       !.octave = Octave_up(@)]
        ELSE [a EXCEPT !.octave_change = SomeOctave(octave_change),
                       !.octave = Octave_down(@)]

interpret_octave_change(a, direction) ==
    LET octave_change == IF a.octave_change.some THEN a.octave_change.octave
                         ELSE a.octave
    IN  IF direction = "Up"
        THEN [a EXCEPT !.octave_change = SomeOctave(Octave_up(octave_change)),
                       !.octave = Octave_up(@)]
        ELSE [a EXCEPT !.octave_change = SomeOctave(Octave_down(octave_change)),
                       !.octave = Octave_down(@)]

next_intermediate(a, value, methods) ==
    [a EXCEPT !.octave_change = NoOctave,
              !.position = FAdd(@, interpret_methods(One, methods)),
              !.output = Append(@, Arranged_from(IntermediateEvent(
                            value, a.octave_change, interpret_methods(One, methods),
                            a.position, a.beat)))]

AtomInterpreter_interpret(a, atom) ==
    CASE atom.value.kind = "Octave" -> interpret_octave_change(a, atom.value.direction)
      [] atom.value.kind = "Tie"    -> next_intermediate(a, Audible_Tie, atom.methods)
      [] atom.value.kind = "Note"   ->
            next_intermediate(a, Audible_Degree(interpret_note(atom.value)), atom.methods)
      [] atom.value.kind = "Pause"  -> next_intermediate(a, Audible_Pause, atom.methods)

RECURSIVE interpret_atoms(_, _)
interpret_atoms(a, atoms) ==
    IF atoms = <<>> THEN a
    ELSE interpret_atoms(AtomInterpreter_interpret(a, Head(atoms)), Tail(atoms))

\* What an EventInterpreter leaves: the two shared cells and its output
Interpreted(octave, position, output) ==
    [octave |-> octave, position |-> position, output |-> output]

group_output(a) == Interpreted(a.octave, a.position, a.output)

interpret_group(atoms, beat, octave, position) ==
    group_output(interpret_atoms(AtomInterpreter_new(octave, beat, position), atoms))

RECURSIVE interpret_beats(_, _, _, _)

RECURSIVE Flatten(_)
\* .map(|arranged| arranged.values).flatten()
Flatten(arranged) ==
    IF arranged = <<>> THEN <<>>
    ELSE Head(arranged).values \o Flatten(Tail(arranged))

\* The inner PatternInnerInterpreter is built by PatternInnerInterpreter::new,
\* whose octave cell is a new Default one; it leaves its ties in place.
interpret_inner(num_of_beats, inner) ==
    Flatten(interpret_beats(inner, 0, num_of_beats, Octave_default).output)

chord_values(intermediates, methods_modifier, beat, position) ==
    [i \in 1..Len(intermediates) |->
        [intermediates[i] EXCEPT !.duration = FMul(@, methods_modifier),
                                 !.beat = beat,
                                 !.beat_position = FAdd(@, position)]]

interpret_chord(chord, beat, octave, position) ==
    Interpreted(octave,
                FAdd(position, interpret_methods(One, chord.methods)),
                <<ArrangedIntermediates(
                    chord_values(interpret_inner(1, chord.inner),
                                 interpret_methods(One, chord.methods), beat, position),
                    interpret_methods(One, chord.methods), beat, position)>>)

RECURSIVE parenthesised_scan(_, _, _, _, _)
\* the scan closure of interpret_parenthesised, from the i-th intermediate on
parenthesised_scan(intermediates, i, methods_modifier, beat, r) ==
    IF i > Len(intermediates) THEN r
    ELSE parenthesised_scan(intermediates, i + 1, methods_modifier, beat,
            Interpreted(r.octave,
                        FAdd(r.position, FMul(intermediates[i].duration, methods_modifier)),
                        Append(r.output, Arranged_from(
                            [intermediates[i] EXCEPT
                                !.duration = FMul(@, methods_modifier),
                                !.beat_position = r.position,
                                !.beat = beat]))))

interpret_parenthesised(event, beat, octave, position) ==
    parenthesised_scan(interpret_inner(Len(event.inner), event.inner), 1,
                       interpret_methods(One, event.methods), beat,
                       Interpreted(octave, position, <<>>))

EventInterpreter_interpret(event, beat, octave, position) ==
    CASE event.kind = "Group" -> interpret_group(event.atoms, beat, octave, position)
      [] event.kind = "Chord" -> interpret_chord(event, beat, octave, position)
      [] event.kind = "ParenthesisedEvent" ->
            interpret_parenthesised(event, beat, octave, position)

RECURSIVE interpret_events(_, _, _)
\* the for loop of BeatEventInterpreter::interpret: r is what the events so
\* far have left
interpret_events(events, beat, r) ==
    IF events = <<>> THEN r
    ELSE interpret_events(Tail(events), beat,
            [EventInterpreter_interpret(Head(events), beat, r.octave, r.position)
                EXCEPT !.output = r.output \o @])

RECURSIVE SumDurations(_)
SumDurations(group) ==
    IF group = <<>> THEN Zero
    ELSE FAdd(SumDurations(SubSeq(group, 1, Len(group) - 1)), group[Len(group)].duration)

divide_by(group, divisor) ==
    [i \in 1..Len(group) |->
        ArrangedIntermediates(
            [j \in 1..Len(group[i].values) |->
                [group[i].values[j] EXCEPT !.duration = FDiv(@, divisor),
                                           !.beat_position = FDiv(@, divisor)]],
            FDiv(group[i].duration, divisor),
            group[i].beat,
            FDiv(group[i].beat_position, divisor))]

normalize_by_count(group, divisor_multiplier) ==
    divide_by(group, Whole(Len(group)))

normalize(group, divisor_multiplier) ==
    IF divisor_multiplier > 0
    THEN divide_by(group, FMul(SumDurations(group), Whole(divisor_multiplier)))
    ELSE divide_by(group, SumDurations(group))

\* What a BeatEventInterpreter leaves: the octave cell and its output
Lowered(octave, output) == [octave |-> octave, output |-> output]

normalized(r, divisor_multiplier) ==
    Lowered(r.octave, normalize(r.output, divisor_multiplier))

BeatEventInterpreter_interpret(event, beat, octave, divisor_multiplier) ==
    normalized(interpret_events(event, beat, Interpreted(octave, Zero, <<>>)),
               divisor_multiplier)

\* the for loop of PatternInnerInterpreter::interpret from beat number `beat`
interpret_beats(inner, beat, divisor_multiplier, octave) ==
    IF inner = <<>> THEN Lowered(octave, <<>>)
    ELSE [interpret_beats(Tail(inner), beat + 1, divisor_multiplier,
                BeatEventInterpreter_interpret(Head(inner), beat, octave,
                                               divisor_multiplier).octave)
            EXCEPT !.output =
                BeatEventInterpreter_interpret(Head(inner), beat, octave,
                                               divisor_multiplier).output \o @]

\* Pattern::sort
Pattern_sort(p) ==
    [p EXCEPT !.degree = sort(@), !.scale = sort(@), !.root = sort(@),
              !.octave = sort(@), !.modulation = sort(@)]

\* InterpreterResult, and what a panic leaves instead of one
Running == [kind |-> "Running"]

Ok == [kind |-> "Ok"]

LonelyTie(beat) == [kind |-> "LonelyTie", beat |-> beat]

Panicked == [kind |-> "Panicked"]

\* previous_indices holds the source's 0-based indices into result
TieInterpreter_new(intermediates) ==
    [result |-> <<>>, previous_indices |-> <<>>, intermediates |-> intermediates,
     outcome |-> Running]

HasTie(values) == \E i \in 1..Len(values) : values[i].value.kind = "Tie"

check_lonely_never(t) == Running

check_lonely(t) ==
    IF HasTie(t.intermediates[1].values) THEN LonelyTie(t.intermediates[1].beat)
    ELSE Running

prepare_buffers(t) ==
    IF check_lonely(t) # Running THEN [t EXCEPT !.outcome = check_lonely(t)]
    ELSE [t EXCEPT !.result = t.intermediates[1].values,
                   !.previous_indices =
                        [i \in 1..Len(t.intermediates[1].values) |-> i - 1],
                   !.intermediates = Tail(@)]

push_result(t, event) ==
    [t EXCEPT !.result = Append(@, event),
              !.previous_indices = Append(@, Len(t.result))]

tie_current_replace(t, prev_n, current) ==
    [t EXCEPT !.result[prev_n + 1].duration = current.duration,
              !.previous_indices = Append(@, prev_n)]

tie_current_all_voices(t, prev_n, current) ==
    [t EXCEPT !.result = [k \in 1..Len(t.result) |->
                            [t.result[k] EXCEPT !.duration = FAdd(@, current.duration)]],
              !.previous_indices = Append(@, prev_n)]

\* the Audible::Tie arm of interpret_current
tie_current(t, prev_n, current) ==
    [t EXCEPT !.result[prev_n + 1].duration = FAdd(@, current.duration),
              !.previous_indices = Append(@, prev_n)]

RECURSIVE interpret_current_from(_, _, _, _)
\* the for loop of interpret_current from its n-th round on: previous is the
\* vector split off previous_indices; values[n % 0] panics
interpret_current_from(t, previous, n, values) ==
    IF n >= Len(previous) THEN t
    ELSE IF values = <<>> THEN [t EXCEPT !.outcome = Panicked]
    ELSE interpret_current_from(
            IF values[(n % Len(values)) + 1].value.kind = "Tie"
            THEN tie_current(t, previous[n + 1], values[(n % Len(values)) + 1])
            ELSE IF Len(values) > n
                 THEN push_result(t, values[(n % Len(values)) + 1])
                 ELSE t,
            previous, n + 1, values)

interpret_current(t, values) ==
    interpret_current_from([t EXCEPT !.previous_indices = <<>>],
                           t.previous_indices, 0, values)

RECURSIVE interpret_next(_, _, _)
interpret_next(t, next, beat) ==
    IF t.outcome # Running \/ next = <<>> THEN t
    ELSE IF Head(next).value.kind = "Tie" THEN [t EXCEPT !.outcome = LonelyTie(beat)]
    ELSE interpret_next(push_result(t, Head(next)), Tail(next), beat)

Min(a, b) == IF a < b THEN a ELSE b

\* one round of the for loop of TieInterpreter::interpret
tie_round(t, beat, values) ==
    interpret_next(
        interpret_current(t, SubSeq(values, 1, Min(Len(t.previous_indices), Len(values)))),
        SubSeq(values, Min(Len(t.previous_indices), Len(values)) + 1, Len(values)),
        beat)

----------------------------------------------------------------------------
(* SpecLower: ast::Pattern::interpret, one beat and one tie round at a time *)

Plain(value) == PatternAtom(value, <<>>)

Note(pitch) == Plain(Atom_Note(pitch, <<>>))

\* a beat holding one group of one atom
Single(atom) == <<Group(<<atom>>)>>

\* The beats a source pattern is made of:
\*   1   0_   _   o   [0 2 4]   [_ r]   [_ _ r]   [o]   (0 _)*   O1+. [0 2]:
BeatEvents ==
    { Single(Note(1)),
      Single(Plain(Atom_Octave("Up"))),
      <<Group(<<Note(0), Plain(Atom_Tie)>>)>>,
      Single(Plain(Atom_Tie)),
      <<Chord(<<Single(Note(0)), Single(Note(2)), Single(Note(4))>>, <<>>)>>,
      <<Chord(<<Single(Plain(Atom_Tie)), Single(Plain(Atom_Pause))>>, <<>>)>>,
      <<Chord(<<Single(Plain(Atom_Tie)), Single(Plain(Atom_Tie)),
                Single(Plain(Atom_Pause))>>, <<>>)>>,
      <<Chord(<<Single(Plain(Atom_Octave("Down")))>>, <<>>)>>,
      <<ParenthesisedEvent(<<Single(Note(0)), Single(Plain(Atom_Tie))>>,
                           <<"Multiply">>)>>,
      <<Group(<<Plain(Atom_Octave("Up")),
                PatternAtom(Atom_Note(1, <<"Up">>), <<"Dot">>)>>),
        Chord(<<Single(Note(0)), Single(Note(2))>>, <<"Divide">>)>> }

\* PatternInnerInterpreter::new(self.0): source is the part of self.0 read so
\* far, intermediates what its beats were lowered to, before the tie round
\* last made (its group and the TieInterpreter it started from)
InitLower ==
    /\ lower = [stage |-> "beats", source |-> <<>>, octave |-> Octave_default,
                intermediates |-> <<>>, tie |-> TieInterpreter_new(<<>>),
                last |-> NotCalled, outcome |-> Running]
    /\ calc = Idle
    /\ pattern = Idle
    /\ plog = <<>>
    /\ pflags = Idle
    /\ plast = Idle
    /\ stream = Idle
    /\ inserted = <<>>
    /\ calls = <<>>
    /\ flags = Idle

\* b is what the BeatEventInterpreter of the next beat leaves
BeatLowered(event, b) ==
    lower' = [lower EXCEPT !.source = Append(@, event),
                           !.octave = b.octave,
                           !.intermediates = @ \o b.output]

\* one round of the for loop of PatternInnerInterpreter::interpret
BeatEventInterpret ==
    /\ lower.stage = "beats"
    /\ Len(lower.source) < MaxBeats
    /\ \E event \in BeatEvents :
          BeatLowered(event, BeatEventInterpreter_interpret(
                                event, Len(lower.source), lower.octave, 0))
    /\ UNCHANGED <<calc, svars, pvars>>

\* t is the TieInterpreter after prepare_buffers
Prepared(t) ==
    lower' = [lower EXCEPT !.tie = t,
                           !.outcome = t.outcome,
                           !.stage = IF t.outcome = Running THEN "ties" ELSE "done"]

\* interpret_ties_or_concat up to the for loop of TieInterpreter::interpret
TiePrepare ==
    /\ lower.stage = "beats"
    /\ IF lower.intermediates = <<>>
       THEN lower' = [lower EXCEPT !.stage = "ties"]
       ELSE Prepared(prepare_buffers(TieInterpreter_new(lower.intermediates)))
    /\ UNCHANGED <<calc, svars, pvars>>

\* t is the TieInterpreter after the round
Tied(t) ==
    lower' = [lower EXCEPT !.tie = [t EXCEPT !.intermediates = Tail(@)],
                           !.last = [called |-> TRUE, before |-> lower.tie,
                                     group |-> Head(lower.tie.intermediates)],
                           !.outcome = t.outcome,
                           !.stage = IF t.outcome = Running THEN "ties" ELSE "done"]

\* one round of the for loop of TieInterpreter::interpret
TieRound ==
    /\ lower.stage = "ties"
    /\ lower.tie.intermediates # <<>>
    /\ Tied(tie_round(lower.tie, Head(lower.tie.intermediates).beat,
                      Head(lower.tie.intermediates).values))
    /\ UNCHANGED <<calc, svars, pvars>>

\* The rest of ast::Pattern::interpret once the intermediates are there; the
\* cursor is the clock's, at any position
PatternInterpret ==
    /\ lower.stage = "ties"
    /\ lower.tie.intermediates = <<>>
    /\ lower' = [lower EXCEPT !.stage = "done", !.outcome = Ok]
    /\ \E start \in StartPositions :
          pattern' = Pattern_sort(Pattern_new([position |-> start, resolution |-> R]))
    /\ UNCHANGED <<calc, plog, pflags, plast, svars>>

NextLower ==
    \/ BeatEventInterpret
    \/ TiePrepare
    \/ TieRound
    \/ PatternInterpret

SpecLower == InitLower /\ [][NextLower]_vars

----------------------------------------------------------------------------
(* Claims about lowering (SpecLower) *)

\* ast::Pattern::interpret has returned Ok(pattern)
Interpreted_Ok == lower.stage = "done" /\ lower.outcome = Ok

\* the intermediate events top-level lowering has returned
Result == lower.tie.result

\* x beats in ticks, rounded down
Ticks(x) == (x.n * R) \div x.d

\* the stream holds an On/Off pair for value, On at position
HoldsPair(events, value, position) ==
    \E i \in 1..Len(events), j \in 1..Len(events) :
        /\ i < j
        /\ events[i] = Event(value, position, On)
        /\ events[j].value = value /\ events[j].state = Off

\* C12: the Pattern returned by interpreting an ast::Pattern holds, for every
\* Degree intermediate that survives tie handling, an On/Off pair on its
\* degree stream at offset (beat, beat_position x R ticks); in particular a
\* pattern with at least one note yields a non-empty degree stream.
C12_AsStated ==
    Interpreted_Ok =>
        \A i \in 1..Len(Result) :
            Result[i].value.kind = "Degree" =>
                /\ pattern.degree.events # <<>>
                /\ HoldsPair(pattern.degree.events, Result[i].value.degree,
                             Pos(Result[i].beat, Ticks(Result[i].beat_position)))

\* tie handling has looked at the first arranged group and at no other yet
FirstGroupChecked ==
    lower.stage # "beats" /\ lower.intermediates # <<>> /\ ~lower.last.called

\* the group holds a tie at a voice index (0-based) not below the number of
\* voices t tracks
TieBeyondTracked(t, group) ==
    \E i \in 1..Len(group.values) :
        /\ i - 1 >= Len(t.previous_indices)
        /\ group.values[i].value.kind = "Tie"

NoError == lower.outcome \in {Running, Ok}

\* C13: top-level tie handling returns LonelyTie(b) exactly when the first
\* arranged group holds a tie in any voice (b its beat) or a later group holds
\* a tie at a voice index not below the number of voices tracked from the
\* groups before it (b that group's beat); in every other case it goes on and
\* returns Ok.
C13_AsStated ==
    /\ FirstGroupChecked =>
          IF HasTie(lower.intermediates[1].values)
          THEN lower.outcome = LonelyTie(lower.intermediates[1].beat)
          ELSE NoError
    /\ lower.last.called =>
          IF TieBeyondTracked(lower.last.before, lower.last.group)
          THEN lower.outcome = LonelyTie(lower.last.group.beat)
          ELSE NoError
    /\ lower.stage = "done" /\ NoError => lower.outcome = Ok

----------------------------------------------------------------------------
(* SpecValues: Value::new_pitch and the arithmetic of CursorPosition, each  *)
(* applied once to arguments drawn from the bounds                          *)

NotApplied == [op |-> "none"]

InitValues ==
    /\ calc = NotApplied
    /\ lower = Idle
    /\ pattern = Idle
    /\ plog = <<>>
    /\ pflags = Idle
    /\ plast = Idle
    /\ stream = Idle
    /\ inserted = <<>>
    /\ calls = <<>>
    /\ flags = Idle

Resolutions == 1..MaxResolution

\* the normalised positions of a resolution
Normalised(res) == {from_ticks(n, res) : n \in 0..MaxTicks}

\* positions whose tick may reach or pass the resolution
Offsets == {Pos(b, t) : b \in 0..1, t \in 0..MaxTicks}

NewPitch ==
    /\ calc = NotApplied
    /\ \E value \in 0..MaxDegree, alteration \in (-MaxAlteration)..MaxAlteration,
          root \in {Root_default, 2},
          octave \in {Octave_with_octave(0), Octave_default},
          scale \in {Scale_default, MajorScale} :
          calc' = [op |-> "new_pitch", degree |-> Degree(value, alteration),
                   root |-> root, octave |-> octave, scale |-> scale,
                   result |-> new_pitch(Degree(value, alteration), root, octave, scale)]
    /\ UNCHANGED <<lower, svars, pvars>>

FromTicks ==
    /\ calc = NotApplied
    /\ \E n \in 0..MaxTicks, res \in Resolutions :
          calc' = [op |-> "from_ticks", ticks |-> n, resolution |-> res,
                   result |-> from_ticks(n, res)]
    /\ UNCHANGED <<lower, svars, pvars>>

\* the positions k/8, exact in f64
FromF64 ==
    /\ calc = NotApplied
    /\ \E k \in 0..(2 * MaxTicks), res \in Resolutions :
          calc' = [op |-> "from_f64", n |-> k, d |-> 8, resolution |-> res,
                   result |-> from_f64(k, 8, res)]
    /\ UNCHANGED <<lower, svars, pvars>>

Add ==
    /\ calc = NotApplied
    /\ \E res \in Resolutions :
          \E p \in Normalised(res), q \in Offsets :
              calc' = [op |-> "add", p |-> p, q |-> q, resolution |-> res,
                       result |-> add(p, q, res)]
    /\ UNCHANGED <<lower, svars, pvars>>

Sub ==
    /\ calc = NotApplied
    /\ \E res \in Resolutions :
          \E p \in Normalised(res), q \in Offsets :
              calc' = [op |-> "sub", p |-> p, q |-> q, resolution |-> res,
                       result |-> sub(p, q, res)]
    /\ UNCHANGED <<lower, svars, pvars>>

\* (p + q) + r and p + (q + r)
AddAdd ==
    /\ calc = NotApplied
    /\ \E res \in Resolutions :
          \E p \in Normalised(res), q \in Offsets, r \in Offsets :
              calc' = [op |-> "add_add", p |-> p, q |-> q, r |-> r, resolution |-> res,
                       left |-> add(add(p, q, res), r, res),
                       right |-> add(p, add(q, r, res), res)]
    /\ UNCHANGED <<lower, svars, pvars>>

NextValues ==
    \/ NewPitch
    \/ FromTicks
    \/ FromF64
    \/ Add
    \/ Sub
    \/ AddAdd

SpecValues == InitValues /\ [][NextValues]_vars

----------------------------------------------------------------------------
(* Claims about values and positions (SpecValues) *)

\* the sum new_pitch is said to clamp
PitchSum(degree, root, octave, scale) ==
    octave.pitch + root
        + scale.pitch_set[(degree.value % Len(scale.pitch_set)) + 1]
        + 12 * (degree.value \div Len(scale.pitch_set))
        + degree.alteration

CalcSum == PitchSum(calc.degree, calc.root, calc.octave, calc.scale)

\* C14: for every degree, root, octave and scale with a non-empty pitch set
\* of size n, new_pitch returns Pitch(max(0, octave.pitch + root
\* + pitch_set[value mod n] + 12 * (value div n) + alteration)): a negative
\* sum becomes Pitch(0), and a Pitch is what is returned in every case.
C14_ClampedSum ==
    calc.op = "new_pitch" =>
        /\ calc.result.kind = "Pitch"
        /\ calc.result.pitch >= 0
        /\ calc.result.pitch = IF CalcSum < 0 THEN 0 ELSE CalcSum

\* new_pitch was given a negative sum and returned Pitch(0)
C14_Witness ==
    /\ calc.op = "new_pitch"
    /\ CalcSum < 0
    /\ calc.result = Pitch(0)

\* C15: for every resolution R >= 1, every tick count n and every
\* non-negative real x, the positions returned by from_ticks(n, R) and
\* from_f64(x, R) are normalised: tick < R.
C15_AsStated ==
    calc.op \in {"from_ticks", "from_f64"} => calc.result.tick < calc.resolution

\* q in ticks at the resolution of the left operand
RightTicks == calc.q.beat * calc.resolution + calc.q.tick

\* C16: for positions p and q of resolution R (q possibly with tick >= R),
\* p + q is from_ticks(as_ticks(p) + t, R) and p - q is
\* from_ticks(max(0, as_ticks(p) - t), R) with t = q.beat * R + q.tick: the
\* result is normalised, addition is associative, and subtraction stops at
\* (0, 0).
C16_AddSub ==
    /\ calc.op = "add" =>
          /\ calc.result.tick < calc.resolution
          /\ as_ticks(calc.result, calc.resolution)
                = as_ticks(calc.p, calc.resolution) + RightTicks
    /\ calc.op = "sub" =>
          /\ calc.result.tick < calc.resolution
          /\ calc.result.beat >= 0
          /\ IF as_ticks(calc.p, calc.resolution) <= RightTicks
             THEN calc.result = Origin
             ELSE as_ticks(calc.result, calc.resolution)
                    = as_ticks(calc.p, calc.resolution) - RightTicks
    /\ calc.op = "add_add" =>
          /\ calc.left = calc.right
          /\ calc.left.tick < calc.resolution

\* a position off the origin had more taken from it than it holds, by a
\* right operand whose tick is not below the resolution
C16_Witness ==
    /\ calc.op = "sub"
    /\ calc.p # Origin
    /\ calc.q.tick >= calc.resolution
    /\ RightTicks > as_ticks(calc.p, calc.resolution)
    /\ calc.result = Origin

----------------------------------------------------------------------------
(* More claims about lowering (SpecLower) *)

\* the arranged groups tie handling was given
Groups == lower.intermediates

\* voice i (from 1) of group g holds a tie / holds something else
IsTie(g, i) ==
    Len(Groups[g].values) >= i /\ Groups[g].values[i].value.kind = "Tie"

IsEvent(g, i) ==
    Len(Groups[g].values) >= i /\ Groups[g].values[i].value.kind # "Tie"

\* what group g holds for tracked voice i: the value at index i mod its size
Matched(g, i) == Groups[g].values[((i - 1) % Len(Groups[g].values)) + 1]

\* voice i of group g is a non-tie event that exactly the n groups after it
\* prolong with a tie in the same voice
TiedRun(g, i, n) ==
    /\ IsEvent(g, i)
    /\ \A j \in (g + 1)..(g + n) : IsTie(j, i)
    /\ \/ g + n = Len(Groups)
       \/ Groups[g + n + 1].values = <<>>
       \/ Matched(g + n + 1, i).value.kind # "Tie"

RECURSIVE TieSum(_, _, _)
\* the durations of voice i of the n groups after group g, added up
TieSum(g, i, n) ==
    IF n = 0 THEN Zero
    ELSE FAdd(TieSum(g, i, n - 1), Groups[g + n].values[i].duration)

\* the places of the result that hold e, whatever their duration
Emitted(e) == {k \in 1..Len(Result) : [Result[k] EXCEPT !.duration = e.duration] = e}

\* the most voices of a group
Voices == 1..3

\* C17: when a non-tie event e is followed by n consecutive ties in the same
\* voice, within one beat or across beats, top-level lowering emits e exactly
\* once, with e's duration plus the n tie durations, and with e's beat and
\* beat_position.
C17_TiesProlong ==
    Interpreted_Ok =>
        \A g \in 1..Len(Groups) : \A i \in Voices : \A n \in 0..(Len(Groups) - g) :
            TiedRun(g, i, n) =>
                /\ Cardinality(Emitted(Groups[g].values[i])) = 1
                /\ \A k \in Emitted(Groups[g].values[i]) :
                      Result[k].duration
                        = FAdd(Groups[g].values[i].duration, TieSum(g, i, n))

\* an event was prolonged by a tie of its own beat and by one of a later beat
C17_Witness ==
    /\ Interpreted_Ok
    /\ \E g \in 1..Len(Groups) : \E n \in 2..(Len(Groups) - g) :
          /\ TiedRun(g, 1, n)
          /\ Groups[g + 1].beat = Groups[g].beat
          /\ Groups[g + n].beat > Groups[g].beat
          /\ \E k \in Emitted(Groups[g].values[1]) :
                Result[k].duration = FAdd(Groups[g].values[1].duration, TieSum(g, 1, n))

\* the round of tie handling last made, when it did not panic: the
\* interpreter before it, the values of its group, the interpreter after it
RoundMade == lower.last.called /\ lower.outcome # Panicked

Before == lower.last.before

Values == lower.last.group.values

\* the value the group holds for tracked voice n (from 0)
ValueFor_voice(n) == Values[(n % Len(Values)) + 1]

\* the tracked voices (from 0) whose recorded event is result[k]
VoicesOf(k) ==
    {n \in 0..(Len(Before.previous_indices) - 1) : Before.previous_indices[n + 1] = k - 1}

\* the source of `[ 0 2 4 ] [ _ r ] [ _ _ r ] 1`
MultitieChords ==
    << <<Chord(<<Single(Note(0)), Single(Note(2)), Single(Note(4))>>, <<>>)>>,
       <<Chord(<<Single(Plain(Atom_Tie)), Single(Plain(Atom_Pause))>>, <<>>)>>,
       <<Chord(<<Single(Plain(Atom_Tie)), Single(Plain(Atom_Tie)),
                 Single(Plain(Atom_Pause))>>, <<>>)>>,
       Single(Note(1)) >>

\* C18: in a round of tie handling tracked voice i is matched with the
\* group's value at index i mod (size of the group): a Tie adds its duration
\* to the event recorded for voice i and to no other event, a non-tie value
\* ends the prolongation of that event (its index is tracked no more, and
\* indices only enter as new events are pushed); so in
\* `[ 0 2 4 ] [ _ r ] [ _ _ r ] 1` the chord notes end with durations 3, 1, 2.
C18_VoiceMatching ==
    /\ RoundMade =>
          /\ Len(lower.tie.result) >= Len(Before.result)
          /\ \A k \in 1..Len(Before.result) :
                /\ [lower.tie.result[k] EXCEPT !.duration = Before.result[k].duration]
                      = Before.result[k]
                /\ IF \E n \in VoicesOf(k) : ValueFor_voice(n).value.kind = "Tie"
                   THEN \E n \in VoicesOf(k) :
                            lower.tie.result[k].duration
                              = FAdd(Before.result[k].duration, ValueFor_voice(n).duration)
                   ELSE /\ lower.tie.result[k] = Before.result[k]
                        /\ \A m \in 1..Len(lower.tie.previous_indices) :
                              lower.tie.previous_indices[m] # k - 1
    /\ (Interpreted_Ok /\ lower.source = MultitieChords) =>
          /\ Result[1].duration = Whole(3)
          /\ Result[2].duration = Whole(1)
          /\ Result[3].duration = Whole(2)

\* `[ 0 2 4 ] [ _ r ] [ _ _ r ] 1` was lowered to six events, the chord notes
\* lasting 3 and 2 beats where two and one tie reached them
C18_Witness ==
    /\ Interpreted_Ok
    /\ lower.source = MultitieChords
    /\ Len(Result) = 6
    /\ Result[1].duration = Whole(3)
    /\ Result[3].duration = Whole(2)

\* the source holds a beat that opens with an event of this kind holding a tie
TieInside(kind) ==
    \E b \in 1..Len(lower.source) :
        /\ lower.source[b][1].kind = kind
        /\ \E i \in 1..Len(lower.source[b][1].inner) :
              lower.source[b][1].inner[i] = Single(Plain(Atom_Tie))

\* C19: the intermediate events that top-level lowering (tie handling on)
\* returns never hold an Audible::Tie, for every pattern that lowers without
\* error, ties inside chords and parenthesised events included.
C19_NoTieReturned ==
    Interpreted_Ok => \A k \in 1..Len(Result) : Result[k].value.kind # "Tie"

\* a pattern with a tie inside a chord and a tie inside a parenthesised event
\* was lowered without error
C19_Witness ==
    /\ Interpreted_Ok
    /\ TieInside("Chord")
    /\ TieInside("ParenthesisedEvent")
    /\ Len(Result) > 1

RECURSIVE SumAt(_, _)
\* the durations of the members of seq (events or arranged groups) that lie
\* in beat b, added up
SumAt(seq, b) ==
    IF seq = <<>> THEN Zero
    ELSE IF seq[Len(seq)].beat = b
         THEN FAdd(SumAt(SubSeq(seq, 1, Len(seq) - 1), b), seq[Len(seq)].duration)
         ELSE SumAt(SubSeq(seq, 1, Len(seq) - 1), b)

\* the beats (from 0) of the source
SourceBeats == 0..(Len(lower.source) - 1)

GroupsAt(b) == {g \in 1..Len(Groups) : Groups[g].beat = b}

\* the first arranged group of beat b holds a tie: an event of an earlier
\* beat reaches into beat b
TieInto(b) ==
    \E g \in GroupsAt(b) :
        /\ \A h \in GroupsAt(b) : g <= h
        /\ HasTie(Groups[g].values)

\* the first arranged group after those of beat b holds a tie: an event of
\* beat b, or of a beat before it, reaches past beat b
TieOutOf(b) ==
    \E g \in 1..Len(Groups) :
        /\ Groups[g].beat > b
        /\ \A h \in 1..Len(Groups) : Groups[h].beat > b => g <= h
        /\ HasTie(Groups[g].values)

NoTieCrossing(b) == ~TieInto(b) /\ ~TieOutOf(b)

\* one of the events of beat b is a chord
HoldsChord(b) ==
    \E e \in 1..Len(lower.source[b + 1]) : lower.source[b + 1][e].kind = "Chord"

\* C20 as stated: for every beat of a source pattern with no tie crossing
\* the beat, the durations of all intermediate events lowered from that beat
\* sum to exactly 1.
C20_AsStated ==
    Interpreted_Ok =>
        \A b \in SourceBeats : NoTieCrossing(b) => SumAt(Result, b) = One

\* C20: for every beat of a source pattern that yields an arranged group,
\* the durations of its arranged groups (a chord counting once, with the
\* duration of its slot) sum to exactly 1; the durations of the intermediate
\* events lowered from the beat sum to exactly 1 when, in addition, no tie
\* crosses the beat and the beat holds no chord.
C20_SlotsSumToOne ==
    /\ lower.stage # "beats" =>
          \A b \in SourceBeats : GroupsAt(b) # {} => SumAt(Groups, b) = One
    /\ Interpreted_Ok =>
          \A b \in SourceBeats :
              (GroupsAt(b) # {} /\ NoTieCrossing(b) /\ ~HoldsChord(b))
                  => SumAt(Result, b) = One

\* a pattern was lowered in which the events of a beat of several events and
\* no chord last 1 together, and those of a beat with a chord more than its
\* slots do
C20_Witness ==
    /\ Interpreted_Ok
    /\ \E b \in SourceBeats :
          /\ NoTieCrossing(b) /\ ~HoldsChord(b)
          /\ Cardinality(GroupsAt(b)) > 1
          /\ SumAt(Result, b) = One
    /\ \E b \in SourceBeats :
          /\ NoTieCrossing(b) /\ HoldsChord(b)
          /\ SumAt(Groups, b) = One
          /\ SumAt(Result, b) # One

RECURSIVE RegisterAfter(_, _)
\* The octave register after the beats, if every octave atom of them, at any
\* depth and in source order, moved the one register o
RegisterAfter(beats, o) ==
    IF beats = <<>> THEN o
    ELSE IF Head(beats) = <<>> THEN RegisterAfter(Tail(beats), o)
    ELSE LET event == Head(Head(beats))
             rest == <<Tail(Head(beats))>> \o Tail(beats)
         IN  IF event.kind = "Group"
             THEN IF event.atoms = <<>> THEN RegisterAfter(rest, o)
                  ELSE RegisterAfter(
                          <<<<Group(Tail(event.atoms))>>>> \o rest,
                          IF Head(event.atoms).value.kind # "Octave" THEN o
                          ELSE IF Head(event.atoms).value.direction = "Up"
                               THEN Octave_up(o) ELSE Octave_down(o))
             ELSE RegisterAfter(event.inner \o rest, o)

\* C21: all nested interpreters of one lowering, chords and parenthesised
\* events at any depth, read and update the octave register of the enclosing
\* level: the change an octave atom makes inside a nested construct is
\* visible after the construct, so the register is always what the octave
\* atoms read so far, nested ones included, make of its start value.
C21_AsStated ==
    lower.stage = "beats" => lower.octave = RegisterAfter(lower.source, Octave_default)

----------------------------------------------------------------------------
(* SpecEvent: EventInterpreter::interpret, applied once to one event at any  *)
(* register value and beat position                                         *)

\* the atoms   O   o   0   1.   _   r
Atoms ==
    { Plain(Atom_Octave("Up")), Plain(Atom_Octave("Down")), Note(0),
      PatternAtom(Atom_Note(1, <<>>), <<"Dot">>), Plain(Atom_Tie), Plain(Atom_Pause) }

AtomLists == UNION {[1..k -> Atoms] : k \in 1..MaxAtoms}

\* the inner beats   0   45   O1   o   [0 2]   (0 1.)*
InnerBeats ==
    { Single(Note(0)),
      <<Group(<<Note(4), Note(5)>>)>>,
      <<Group(<<Plain(Atom_Octave("Up")), Note(1)>>)>>,
      Single(Plain(Atom_Octave("Down"))),
      <<Chord(<<Single(Note(0)), Single(Note(2))>>, <<>>)>>,
      <<ParenthesisedEvent(
            <<Single(Note(0)), Single(PatternAtom(Atom_Note(1, <<>>), <<"Dot">>))>>,
            <<"Multiply">>)>> }

InnerLists == UNION {[1..k -> InnerBeats] : k \in 1..MaxInner}

MethodLists == {<<>>, <<"Multiply">>, <<"Divide">>, <<"Dot", "Divide">>}

\* the register values and beat positions an event is met at
Registers == {Octave_with_octave(1), Octave_default}

BeatPositions == {Zero, Frac(3, 2)}

InitEvent ==
    /\ calc = NotApplied
    /\ lower = Idle
    /\ pattern = Idle
    /\ plog = <<>>
    /\ pflags = Idle
    /\ plast = Idle
    /\ stream = Idle
    /\ inserted = <<>>
    /\ calls = <<>>
    /\ flags = Idle

\* EventInterpreter { event, beat: 0, octave, beat_position }.interpret()
Interpret(event) ==
    \E octave \in Registers, position \in BeatPositions :
        calc' = [op |-> event.kind, event |-> event, octave |-> octave,
                 position |-> position,
                 result |-> EventInterpreter_interpret(event, 0, octave, position)]

InterpretGroup ==
    /\ calc = NotApplied
    /\ \E atoms \in AtomLists : Interpret(Group(atoms))
    /\ UNCHANGED <<lower, svars, pvars>>

InterpretChord ==
    /\ calc = NotApplied
    /\ \E inner \in InnerLists, methods \in MethodLists : Interpret(Chord(inner, methods))
    /\ UNCHANGED <<lower, svars, pvars>>

InterpretParenthesised ==
    /\ calc = NotApplied
    /\ \E inner \in InnerLists, methods \in MethodLists :
          Interpret(ParenthesisedEvent(inner, methods))
    /\ UNCHANGED <<lower, svars, pvars>>

NextEvent ==
    \/ InterpretGroup
    \/ InterpretChord
    \/ InterpretParenthesised

SpecEvent == InitEvent /\ [][NextEvent]_vars

----------------------------------------------------------------------------
(* Claims about one event (SpecEvent) *)

\* octave number n moved by one octave atom; lowest is the least number it
\* can take
Moved(n, atom, lowest) ==
    IF atom.value.direction = "Up" THEN n + 1
    ELSE IF n - 1 < lowest THEN lowest ELSE n - 1

RECURSIVE NumberAfter(_, _, _)
\* the octave number after the atoms, one step per octave atom
NumberAfter(atoms, n, lowest) ==
    IF atoms = <<>> THEN n
    ELSE NumberAfter(Tail(atoms),
                     IF Head(atoms).value.kind = "Octave"
                     THEN Moved(n, Head(atoms), lowest) ELSE n,
                     lowest)

RECURSIVE Carried(_, _, _, _)
\* What the events of the atoms carry as octave, in order: Some(register at
\* that moment) right after octave atoms (pending), None otherwise
Carried(atoms, n, pending, lowest) ==
    IF atoms = <<>> THEN <<>>
    ELSE IF Head(atoms).value.kind = "Octave"
         THEN Carried(Tail(atoms), Moved(n, Head(atoms), lowest), TRUE, lowest)
         ELSE <<IF pending THEN SomeOctave(Octave_with_octave(n)) ELSE NoOctave>>
                \o Carried(Tail(atoms), n, FALSE, lowest)

\* the octave field of every event a group was lowered to
OctavesOf(output) == [k \in 1..Len(output) |-> output[k].values[1].octave]

\* the least octave number the model's integers leave room for: no floor
Unbounded == -MaxAtoms - 1

\* C22 as stated: lowering a group moves the octave register up by one per
\* `O` and down by one per `o`; the first event after one or more octave atoms
\* carries Some(register value at that moment), an event not preceded by
\* octave atoms carries None.
C22_AsStated ==
    calc.op = "Group" =>
        /\ calc.result.octave.octave
              = NumberAfter(calc.event.atoms, calc.octave.octave, Unbounded)
        /\ OctavesOf(calc.result.output)
              = Carried(calc.event.atoms, calc.octave.octave, FALSE, Unbounded)

\* C22: lowering a group moves the octave register up by one per `O` and down
\* by one per `o`, except that an `o` at octave 0 leaves it at 0 (so `OOa`
\* ends two above the start and `Ooa` at the start); the first event after
\* one or more octave atoms carries Some(register value at that moment), an
\* event not preceded by octave atoms carries None.
C22_OctaveMoves ==
    calc.op = "Group" =>
        /\ calc.result.octave
              = Octave_with_octave(NumberAfter(calc.event.atoms, calc.octave.octave, 0))
        /\ OctavesOf(calc.result.output)
              = Carried(calc.event.atoms, calc.octave.octave, FALSE, 0)
        /\ calc.event.atoms = <<Plain(Atom_Octave("Up")), Plain(Atom_Octave("Up")), Note(0)>>
              => calc.result.octave.octave = calc.octave.octave + 2
        /\ calc.event.atoms = <<Plain(Atom_Octave("Up")), Plain(Atom_Octave("Down")), Note(0)>>
              => calc.result.octave = calc.octave

\* `oOa` was lowered at octave 1: the register is back at 1 after passing
\* 0, and the note carries it
C22_Witness ==
    /\ calc.op = "Group"
    /\ calc.event.atoms = <<Plain(Atom_Octave("Down")), Plain(Atom_Octave("Up")), Note(0)>>
    /\ calc.octave = Octave_with_octave(1)
    /\ calc.result.octave = Octave_with_octave(1)
    /\ OctavesOf(calc.result.output) = <<SomeOctave(Octave_with_octave(1))>>

\* C23 as stated: for every parenthesised event, whatever its inner beats
\* contain, the durations of the arranged intermediates it yields sum to its
\* method modifier (1 without methods), and it advances the beat accumulator
\* by that amount, as a single atom carrying those methods does.
C23_AsStated ==
    calc.op = "ParenthesisedEvent" =>
        /\ SumDurations(calc.result.output) = interpret_methods(One, calc.event.methods)
        /\ calc.result.position
              = FAdd(calc.position, interpret_methods(One, calc.event.methods))

\* the number of events the k-th inner beat of a chord is lowered to
VoiceLen(inner, k) == Len(Flatten(interpret_beats(<<inner[k]>>, 0, 1, Octave_default).output))

RECURSIVE VoiceStart(_, _)
\* the index before the first value of the k-th voice of a chord
VoiceStart(inner, k) ==
    IF k = 1 THEN 0 ELSE VoiceStart(inner, k - 1) + VoiceLen(inner, k - 1)

\* the events of the k-th voice among the values of a lowered chord
VoiceOf(values, inner, k) ==
    SubSeq(values, VoiceStart(inner, k) + 1, VoiceStart(inner, k) + VoiceLen(inner, k))

\* the events of one voice lie end to end from start and end at start + duration
EndToEnd(voice, start, duration) ==
    /\ \A j \in 1..Len(voice) :
          voice[j].beat_position = FAdd(start, SumDurations(SubSeq(voice, 1, j - 1)))
    /\ voice # <<>> => FAdd(start, SumDurations(voice)) = FAdd(start, duration)

\* no inner beat of the chord holds a chord itself (whose voices would sound
\* together inside one voice)
PlainVoices(inner) ==
    \A k \in 1..Len(inner) : \A e \in 1..Len(inner[k]) : inner[k][e].kind # "Chord"

\* C24 as stated: inside a chord, for every method modifier on the chord, the
\* events of each inner beat (one voice) lie end to end: each event's
\* beat_position is the chord's start plus the durations of the earlier events
\* of its voice, and the voice ends at chord start + chord duration.
C24_AsStated ==
    (calc.op = "Chord" /\ PlainVoices(calc.event.inner)) =>
        \A k \in 1..Len(calc.event.inner) :
            EndToEnd(VoiceOf(calc.result.output[1].values, calc.event.inner, k),
                     calc.position, calc.result.output[1].duration)

----------------------------------------------------------------------------
(* Claims about a whole lowering (SpecLower), continued *)

\* every event of every beat is a group
PlainBeats(beats) ==
    \A b \in 1..Len(beats) : \A e \in 1..Len(beats[b]) : beats[b][e].kind = "Group"

RECURSIVE AtomsOf(_)
\* the atoms of beats made of groups, in source order
AtomsOf(beats) ==
    IF beats = <<>> THEN <<>>
    ELSE IF Head(beats) = <<>> THEN AtomsOf(Tail(beats))
    ELSE Head(Head(beats)).atoms \o AtomsOf(<<Tail(Head(beats))>> \o Tail(beats))

RECURSIVE ChangeCarried(_, _, _, _)
\* events are what the atoms were lowered to, one per atom that is no octave
\* atom: every Degree event that is the first one after octave atoms
\* (pending) carries the register o as it is then; a tie or a pause in
\* between leaves the change pending
ChangeCarried(atoms, events, o, pending) ==
    IF atoms = <<>> THEN TRUE
    ELSE IF Head(atoms).value.kind = "Octave"
         THEN ChangeCarried(Tail(atoms), events,
                            IF Head(atoms).value.direction = "Up"
                            THEN Octave_up(o) ELSE Octave_down(o), TRUE)
         ELSE IF Head(atoms).value.kind = "Note"
              THEN /\ pending => Head(events).octave = SomeOctave(o)
                   /\ ChangeCarried(Tail(atoms), Tail(events), o, FALSE)
              ELSE ChangeCarried(Tail(atoms), Tail(events), o, pending)

\* C25 as stated: every octave-change atom takes effect on the next sounding
\* event: the first Degree event emitted after one or more octave atoms
\* carries the changed octave, also when the octave atoms end a group and the
\* next event belongs to a following beat, and also when a tie or a pause
\* stands between them.
C25_AsStated ==
    (lower.stage = "beats" /\ PlainBeats(lower.source)) =>
        ChangeCarried(AtomsOf(lower.source), Flatten(lower.intermediates),
                      Octave_default, FALSE)

----------------------------------------------------------------------------
(* Claims about the Pattern, continued *)

\* the On and the Off event the last schedule_* call stored
StoredOn == pattern[plast.field].events[Len(pattern[plast.field].events) - 1]

StoredOff == pattern[plast.field].events[Len(pattern[plast.field].events)]

\* C26 as stated: for every schedule_<field> call with any position and any
\* duration, zero ticks included, the Off event is stored at a position not
\* earlier than its On event.  Checked under SpecSchedule.
C26_AsStated ==
    plast.called =>
        /\ StoredOn.state = On /\ StoredOff.state = Off
        /\ as_ticks(StoredOff.position, R) >= as_ticks(StoredOn.position, R)

----------------------------------------------------------------------------
(* SpecReset: a non-looping Pattern is built, iterated, reset and iterated
   again; pflags keeps the record of the first iteration *)

NotReset == [scheduled |-> 0, reset |-> FALSE, first |-> <<>>]

InitReset ==
    /\ \E start \in StartPositions :
          pattern = Pattern_new([position |-> start, resolution |-> R])
    /\ plog = <<>>
    /\ pflags = NotReset
    /\ plast = NotCalled
    /\ stream = Idle
    /\ inserted = <<>>
    /\ calls = <<>>
    /\ flags = Idle
    /\ lower = Idle
    /\ calc = Idle

\* schedule_degree and schedule_modulation for one tick, before the pattern
\* is played
ResetSchedule ==
    /\ ~pflags.reset
    /\ plog = <<>>
    /\ \E field \in {"degree", "modulation"} :
          Schedule(field, Positions, {Pos(0, 1)}, MaxSchedule)

ResetNext ==
    /\ Len(plog) < MaxResetCalls
    /\ PatternNextGives(Pattern_next(pattern))
    /\ plast' = NotCalled
    /\ UNCHANGED <<pflags, svars, lvars>>

\* Pattern::reset(), once, after any number of next() calls
PatternReset ==
    /\ ~pflags.reset
    /\ plog # <<>>
    /\ pattern' = Pattern_reset(pattern)
    /\ pflags' = [pflags EXCEPT !.reset = TRUE, !.first = plog]
    /\ plog' = <<>>
    /\ plast' = NotCalled
    /\ UNCHANGED <<svars, lvars>>

NextReset ==
    \/ ResetSchedule
    \/ ResetNext
    \/ PatternReset

SpecReset == InitReset /\ [][NextReset]_vars

\* C27 as stated: after Pattern::reset(), iterating a non-looping Pattern
\* yields the same sequence of next() results (same groups, same trailing
\* empty groups, None at the same call index) as the first iteration did,
\* whether or not that iteration had run to None.  Stated of the call made
\* last, as far as the first iteration went.
C27_AsStated ==
    (pflags.reset /\ plog # <<>> /\ Len(plog) <= Len(pflags.first)) =>
        /\ Last.some = pflags.first[Len(plog)].some
        /\ Last.group = pflags.first[Len(plog)].group

\* stream field of the pattern holds events and stands at its origin: the
\* next call reads it from the start
AtStart(field) ==
    pattern[field].events # <<>> /\ pattern[field].cursor.position = Origin

\* C28 as stated: in a looping Pattern the degree and the modulation stream
\* restart only when the pattern cursor is at tick 0 of a beat, so what each
\* call pulls recurs with a period of the stream's whole beats.  Checked
\* under SpecPattern.
C28_AsStated ==
    (pattern.is_loop /\ plog # <<>>) =>
        /\ AtStart("degree") => pattern.cursor.position.tick = 0
        /\ AtStart("modulation") => pattern.cursor.position.tick = 0
        /\ Last.degree = Replayed(pattern.degree.events, DegreeBeats, Len(plog))
        /\ Last.modulation =
              Replayed(pattern.modulation.events, ModulationBeats, Len(plog))

----------------------------------------------------------------------------
(* SpecDrain: a non-looping EventStream is read by next() while add_event is
   called now and then; flags keeps what the last next() returned.  The
   reader never stops calling next(): weak fairness of DrainNext.  The cursor
   has no bound in the code; here next() is called while it is within
   MaxCalls ticks, beyond the position of every event that can be added *)

NotRead == [called |-> FALSE, some |-> FALSE, late |-> FALSE]

InitDrain ==
    /\ \E ps \in PosLists(MaxEvents) :
          stream = EventStream_new(EventsAt(ps), R, DefaultValue)
    /\ inserted = <<>>
    /\ calls = <<>>
    /\ flags = NotRead
    /\ pattern = Idle
    /\ plog = <<>>
    /\ pflags = Idle
    /\ plast = Idle
    /\ lower = Idle
    /\ calc = Idle

\* r is what EventStream_next(stream) gives: next_sorted of the sorted stream
DrainNextGives(r) ==
    /\ stream' = r.stream
    /\ flags' = [flags EXCEPT !.called = TRUE, !.some = r.result.some]

DrainNext ==
    /\ as_ticks(stream.cursor.position, R) < MaxCalls
    /\ \E sorted \in {sort(stream)} :
          \E r \in {next_sorted(sorted)} : DrainNextGives(r)
    /\ UNCHANGED <<inserted, calls, pvars, lvars>>

\* add_event at any position, before or behind the cursor (late)
DrainAddEvent ==
    /\ Len(stream.events) < MaxEvents
    /\ \E p \in Positions :
          /\ stream' = add_event(stream, Event(Len(stream.events) + 1, p, On))
          /\ flags' = [flags EXCEPT
                          !.late = @ \/ PosLess(p, stream.cursor.position)]
    /\ UNCHANGED <<inserted, calls, pvars, lvars>>

NextDrain ==
    \/ DrainNext
    \/ DrainAddEvent

SpecDrain == InitDrain /\ [][NextDrain]_vars /\ WF_vars(DrainNext)

----------------------------------------------------------------------------
(* Claims about a whole lowering (SpecLower), the tie rounds *)

\* every index kept is one of result (from 0), and none is kept twice
IndicesValid(t) ==
    /\ \A i \in 1..Len(t.previous_indices) :
          t.previous_indices[i] \in 0..(Len(t.result) - 1)
    /\ \A i, j \in 1..Len(t.previous_indices) :
          i # j => t.previous_indices[i] # t.previous_indices[j]

\* C30 as stated: tie handling never indexes out of range and never takes a
\* remainder by zero: for every list of arranged groups, groups with an empty
\* value list included, TieInterpreter returns Ok or LonelyTie, every index
\* kept in previous_indices is a valid index into result, and no index is
\* kept twice.
C30_AsStated ==
    lower.stage \in {"ties", "done"} =>
        /\ lower.outcome # Panicked
        /\ IndicesValid(lower.tie)

====
